---- MODULE Spec2Model ----
(***************************************************************************)
(* Model of the scoring and questionnaire-resolution engine of the         *)
(* compliance assessment tool (assessment.py, helpers.py,                  *)
(* questionnaire_loader.py).                                               *)
(*                                                                         *)
(* Representation.                                                         *)
(*   - A Python str is a tuple of one-character strings, so that lower(),  *)
(*     strip(), replace() and the `in` substring test are computed.        *)
(*   - A Python float is an exact rational <<n, d>> in lowest terms with   *)
(*     d > 0; None at a place that holds a number is the empty tuple.      *)
(*   - None at a place that holds a response text is NoneResp.             *)
(*   - A dict is a sequence of [k, v] records in insertion order.          *)
(*   - The response key "s{i}_q{j}" is the pair <<i, j>>.                  *)
(***************************************************************************)
EXTENDS Integers, Sequences, FiniteSets, TLC

VARIABLES
  rule_sets,                  \* the rule-set files: regulation -> file -> content
  lru,                        \* the lru_cache of get_questionnaire, by argument pair
  clear_questionnaire_cache,  \* st.session_state.clear_questionnaire_cache
  session_responses,          \* st.session_state.responses
  now,                        \* time.time(), in whole seconds
  score_cache,                \* st.session_state score_cache_* entries, by argument pair
  op,                         \* the last operation and its inputs
  ret,                        \* what the last operation returned
  last_calc,                  \* the latest calculate call: inputs and result
  prev_calc,                  \* the calculate call before the latest
  report                      \* the st.session_state keys of the report page

vars == <<rule_sets, lru, clear_questionnaire_cache, session_responses, now, score_cache,
          op, ret, last_calc, prev_calc, report>>

\* Answer texts used as table keys and as responses
T_YesFullDoc ==
  <<"Y", "e", "s", ",", " ", "w", "i", "t", "h", " ", "f", "u",
    "l", "l", " ", "d", "o", "c", "u", "m", "e", "n", "t", "a",
    "t", "i", "o", "n">>
T_Yes == <<"Y", "e", "s">>
T_NoNotApplicable ==
  <<"N", "o", " ", "-", " ", "N", "o", "t", " ", "A", "p", "p",
    "l", "i", "c", "a", "b", "l", "e">>
T_No == <<"N", "o">>
T_NotApplicable ==
  <<"N", "o", "t", " ", "a", "p", "p", "l", "i", "c", "a", "b",
    "l", "e">>
T_notApplicableLower ==
  <<"n", "o", "t", " ", "a", "p", "p", "l", "i", "c", "a", "b",
    "l", "e">>
T_yesLower == <<"y", "e", "s">>
T_SomewhatDone ==
  <<"S", "o", "m", "e", "w", "h", "a", "t", " ", "d", "o", "n",
    "e">>
T_Mostly == <<"M", "o", "s", "t", "l", "y">>
T_RobustPartial ==
  <<"R", "o", "b", "u", "s", "t", " ", "i", "n", " ", "p", "a",
    "r", "t">>
notices_key ==
  <<"N", "o", "t", "i", "c", "e", "s", " ", "a", "r", "e", " ",
    "p", "r", "o", "v", "i", "d", "e", "d", " ", "i", "n", " ",
    "E", "n", "g", "l", "i", "s", "h", " ", "a", "n", "d", " ",
    "a", "l", "l", " ", "2", "2", " ", "o", "f", "f", "i", "c",
    "i", "a", "l", " ", "I", "n", "d", "i", "a", "n", " ", "l",
    "a", "n", "g", "u", "a", "g", "e", "s", " ", "l", "i", "s",
    "t", "e", "d", " ", "i", "n", " ", "t", "h", "e", " ", "E",
    "i", "g", "h", "t", "h", " ", "S", "c", "h", "e", "d", "u",
    "l", "e", " ", "o", "f", " ", "t", "h", "e", " ", "C", "o",
    "n", "s", "t", "i", "t", "u", "t", "i", "o", "n", ".">>

\* Keywords of the heuristic rules of calculate_section_score
K_yes == <<"y", "e", "s">>
K_successfully_completed ==
  <<"s", "u", "c", "c", "e", "s", "s", "f", "u", "l", "l", "y",
    " ", "c", "o", "m", "p", "l", "e", "t", "e", "d">>
K_no == <<"n", "o">>
K_not_yet_completed ==
  <<"n", "o", "t", " ", "y", "e", "t", " ", "c", "o", "m", "p",
    "l", "e", "t", "e", "d">>
K_partial == <<"p", "a", "r", "t", "i", "a", "l">>
K_needs_improvement ==
  <<"n", "e", "e", "d", "s", " ", "i", "m", "p", "r", "o", "v",
    "e", "m", "e", "n", "t">>
K_not_applicable ==
  <<"n", "o", "t", " ", "a", "p", "p", "l", "i", "c", "a", "b",
    "l", "e">>

\* Phrases of should_have_perfect_score
\* Regulation codes, industry codes and file names
R_DPDP == <<"D", "P", "D", "P">>
R_dpdpLower == <<"d", "p", "d", "p">>
R_NPC == <<"N", "P", "C">>
R_PDPPL == <<"P", "D", "P", "P", "L">>
R_OAIC == <<"O", "A", "I", "C">>
I_Ecommerce == <<"E", "-", "c", "o", "m", "m", "e", "r", "c", "e">>
I_ecommerceLower == <<"e", "-", "c", "o", "m", "m", "e", "r", "c", "e">>
I_Banking ==
  <<"B", "a", "n", "k", "i", "n", "g", " ", "a", "n", "d", " ",
    "f", "i", "n", "a", "n", "c", "e">>
I_General == <<"G", "e", "n", "e", "r", "a", "l">>
I_OilGas == <<"O", "i", "l", "_", "a", "n", "d", "_", "G", "a", "s">>
I_oilGasLower == <<"o", "i", "l", "_", "a", "n", "d", "_", "g", "a", "s">>
I_npc == <<"n", "p", "c">>
I_Retail == <<" ", "R", "e", "t", "a", "i", "l", " ">>
DotJson == <<".", "j", "s", "o", "n">>

\* Section names
N_DCP ==
  <<"D", "a", "t", "a", " ", "C", "o", "l", "l", "e", "c", "t",
    "i", "o", "n", " ", "a", "n", "d", " ", "P", "r", "o", "c",
    "e", "s", "s", "i", "n", "g">>
N_DPR ==
  <<"D", "a", "t", "a", " ", "P", "r", "i", "n", "c", "i", "p",
    "a", "l", " ", "R", "i", "g", "h", "t", "s">>
N_Security == <<"S", "e", "c", "u", "r", "i", "t", "y">>
N_DataCollection ==
  <<"D", "a", "t", "a", " ", "C", "o", "l", "l", "e", "c", "t",
    "i", "o", "n">>
N_DataProcessing ==
  <<"D", "a", "t", "a", " ", "P", "r", "o", "c", "e", "s", "s",
    "i", "n", "g">>
N_DPDP_DCP ==
  <<"D", "P", "D", "P", " ", "D", "a", "t", "a", " ", "C", "o",
    "l", "l", "e", "c", "t", "i", "o", "n", " ", "a", "n", "d",
    " ", "P", "r", "o", "c", "e", "s", "s", "i", "n", "g">>
N_DPDP_DPR ==
  <<"D", "P", "D", "P", " ", "D", "a", "t", "a", " ", "P", "r",
    "i", "n", "c", "i", "p", "a", "l", " ", "R", "i", "g", "h",
    "t", "s">>
N_DPDP_DBS ==
  <<"D", "P", "D", "P", " ", "D", "a", "t", "a", " ", "B", "r",
    "e", "a", "c", "h", " ", "a", "n", "d", " ", "S", "e", "c",
    "u", "r", "i", "t", "y">>
N_DPDP_GD ==
  <<"D", "P", "D", "P", " ", "G", "o", "v", "e", "r", "n", "a",
    "n", "c", "e", " ", "a", "n", "d", " ", "D", "o", "c", "u",
    "m", "e", "n", "t", "a", "t", "i", "o", "n">>
N_NPC_DMS ==
  <<"D", "a", "t", "a", " ", "M", "a", "n", "a", "g", "e", "m",
    "e", "n", "t", " ", "S", "t", "r", "a", "t", "e", "g", "y">>
-----------------------------------------------------------------------------
\* str operations

UpperLetters ==
  <<"A", "B", "C", "D", "E", "F", "G", "H", "I", "J", "K", "L", "M",
    "N", "O", "P", "Q", "R", "S", "T", "U", "V", "W", "X", "Y", "Z">>
LowerLetters ==
  <<"a", "b", "c", "d", "e", "f", "g", "h", "i", "j", "k", "l", "m",
    "n", "o", "p", "q", "r", "s", "t", "u", "v", "w", "x", "y", "z">>

\* str.lower()
Lower(s) ==
  LET LowerChar(c) ==
        IF \E i \in 1..26 : UpperLetters[i] = c
          THEN LowerLetters[CHOOSE i \in 1..26 : UpperLetters[i] = c]
          ELSE c
  IN  IF Len(s) = 0 THEN <<>> ELSE [i \in 1..Len(s) |-> LowerChar(s[i])]

\* str.upper()
Upper(s) ==
  LET UpperChar(c) ==
        IF \E i \in 1..26 : LowerLetters[i] = c
          THEN UpperLetters[CHOOSE i \in 1..26 : LowerLetters[i] = c]
          ELSE c
  IN  IF Len(s) = 0 THEN <<>> ELSE [i \in 1..Len(s) |-> UpperChar(s[i])]

\* p in t  (substring test; the empty string is in every string)
Contains(p, t) ==
  \E i \in 0..(Len(t) - Len(p)) : \A j \in 1..Len(p) : t[i + j] = p[j]

RECURSIVE LStrip(_)
LStrip(s) == IF Len(s) > 0 /\ Head(s) = " " THEN LStrip(Tail(s)) ELSE s

RECURSIVE RStrip(_)
RStrip(s) ==
  IF Len(s) > 0 /\ s[Len(s)] = " " THEN RStrip(SubSeq(s, 1, Len(s) - 1)) ELSE s

\* str.strip()
Strip(s) == RStrip(LStrip(s))

\* s.replace(c, "") for a one-character c
RemoveChar(s, c) == SelectSeq(s, LAMBDA x : x # c)

Digits == <<"0", "1", "2", "3", "4", "5", "6", "7", "8", "9">>

\* str(n) for a natural number n
RECURSIVE Str(_)
Str(n) == IF n < 10 THEN <<Digits[n + 1]>> ELSE Str(n \div 10) \o <<Digits[(n % 10) + 1]>>

-----------------------------------------------------------------------------
\* float operations, on exact rationals

None == <<>>

RECURSIVE GCD(_, _)
GCD(a, b) == IF b = 0 THEN a ELSE GCD(b, a % b)

\* the rational n/d (d # 0) in lowest terms with a positive denominator
Rat(n, d) ==
  LET Abs(x) == IF x < 0 THEN -x ELSE x
      g == GCD(Abs(n), Abs(d))
      s == IF d < 0 THEN -1 ELSE 1
  IN  <<(s * n) \div g, (s * d) \div g>>

Zero == <<0, 1>>
One == <<1, 1>>

RAdd(a, b) == Rat(a[1] * b[2] + b[1] * a[2], a[2] * b[2])
RMul(a, b) == Rat(a[1] * b[1], a[2] * b[2])
RDiv(a, b) == Rat(a[1] * b[2], a[2] * b[1])
RLt(a, b) == a[1] * b[2] < b[1] * a[2]
RLe(a, b) == a[1] * b[2] <= b[1] * a[2]

-----------------------------------------------------------------------------
\* dict operations, on sequences of [k, v] records in insertion order

DictHas(d, key) == \E i \in 1..Len(d) : d[i].k = key

\* d.get(key, default)
DictGet(d, key, default) ==
  IF DictHas(d, key)
    THEN d[CHOOSE i \in 1..Len(d) : d[i].k = key].v
    ELSE default

\* d[key] = value: an existing key keeps its position
DictPut(d, key, value) ==
  IF DictHas(d, key)
    THEN [i \in 1..Len(d) |-> IF d[i].k = key THEN [k |-> key, v |-> value] ELSE d[i]]
    ELSE Append(d, [k |-> key, v |-> value])

\* key in record  (a JSON object that may lack a key)
Has(rec, field) == field \in DOMAIN rec

\* Python None where a response text is expected
NoneResp == <<"None">>

\* truthiness of a response: None and "" are falsy
Truthy(response) == response # NoneResp /\ Len(response) > 0

-----------------------------------------------------------------------------
\* Scoring: answer tables

Half == <<1, 2>>

\* the built-in table used when the questionnaire defines no answer_points
DefaultAnswerPoints ==
  <<
     \* "Yes - Successfully completed"
     [k |-> <<"Y", "e", "s", " ", "-", " ", "S", "u", "c", "c", "e", "s",
              "s", "f", "u", "l", "l", "y", " ", "c", "o", "m", "p", "l",
              "e", "t", "e", "d">>,
      v |-> One],
     \* "Yes, with comprehensive documentation"
     [k |-> <<"Y", "e", "s", ",", " ", "w", "i", "t", "h", " ", "c", "o",
              "m", "p", "r", "e", "h", "e", "n", "s", "i", "v", "e", " ",
              "d", "o", "c", "u", "m", "e", "n", "t", "a", "t", "i", "o",
              "n">>,
      v |-> One],
     [k |-> T_YesFullDoc, v |-> One],
     [k |-> T_Yes, v |-> One],
     \* "Partially completed"
     [k |-> <<"P", "a", "r", "t", "i", "a", "l", "l", "y", " ", "c", "o",
              "m", "p", "l", "e", "t", "e", "d">>,
      v |-> Half],
     \* "In progress"
     [k |-> <<"I", "n", " ", "p", "r", "o", "g", "r", "e", "s", "s">>,
      v |-> Half],
     \* "Partially, but training needs improvement"
     [k |-> <<"P", "a", "r", "t", "i", "a", "l", "l", "y", ",", " ", "b",
              "u", "t", " ", "t", "r", "a", "i", "n", "i", "n", "g", " ",
              "n", "e", "e", "d", "s", " ", "i", "m", "p", "r", "o", "v",
              "e", "m", "e", "n", "t">>,
      v |-> Half],
     \* "Partially, but the process needs improvement"
     [k |-> <<"P", "a", "r", "t", "i", "a", "l", "l", "y", ",", " ", "b",
              "u", "t", " ", "t", "h", "e", " ", "p", "r", "o", "c", "e",
              "s", "s", " ", "n", "e", "e", "d", "s", " ", "i", "m", "p",
              "r", "o", "v", "e", "m", "e", "n", "t">>,
      v |-> Half],
     \* "No - Not yet completed"
     [k |-> <<"N", "o", " ", "-", " ", "N", "o", "t", " ", "y", "e", "t",
              " ", "c", "o", "m", "p", "l", "e", "t", "e", "d">>,
      v |-> Zero],
     [k |-> T_NoNotApplicable, v |-> None],
     [k |-> T_No, v |-> Zero],
     [k |-> T_NotApplicable, v |-> None]
  >>

\* answer_points = questionnaire.get("answer_points", {}); the default
\* table replaces a missing or empty one
AnswerPointsOf(questionnaire) ==
  LET given == IF Has(questionnaire, "answer_points")
                 THEN questionnaire.answer_points ELSE <<>>
  IN  IF Len(given) = 0 THEN DefaultAnswerPoints ELSE given

\* fix_known_scoring_issues: the notices answer scored 0.0 becomes 1.0
fix_known_scoring_issues(answer_points) ==
  IF DictHas(answer_points, notices_key)
       /\ DictGet(answer_points, notices_key, None) = Zero
    THEN DictPut(answer_points, notices_key, One)
    ELSE answer_points

-----------------------------------------------------------------------------
\* Scoring: calculate_section_score (the stand-alone section scorer)

\* the value of the first table key equal to the response ignoring case
CaseInsensitiveValue(response, answer_points) ==
  LET hits == {i \in 1..Len(answer_points) :
                 Lower(answer_points[i].k) = Lower(response)}
  IN  IF hits = {} THEN None
      ELSE answer_points[CHOOSE i \in hits : \A j \in hits : i <= j].v

\* the keyword rules, consulted whenever the point is still None
HeuristicPoint(response_lower) ==
  IF Contains(K_yes, response_lower)
       \/ Contains(K_successfully_completed, response_lower) THEN One
  ELSE IF Contains(K_no, response_lower)
       \/ Contains(K_not_yet_completed, response_lower) THEN Zero
  ELSE IF Contains(K_partial, response_lower)
       \/ Contains(K_needs_improvement, response_lower) THEN Half
  ELSE None

\* the point of one response: a rational, or None when the response is
\* left out of the section's numerator and denominator
ResolvePoint(response, answer_points) ==
  IF DictHas(answer_points, response)
    THEN DictGet(answer_points, response, None)
    ELSE LET point == CaseInsensitiveValue(response, answer_points)
         IN  IF point # None THEN point
             ELSE HeuristicPoint(Lower(response))

\* responses.get(key)
RespGet(responses, key) ==
  IF key \in DOMAIN responses THEN responses[key] ELSE NoneResp

\* the loop over the questions: [total, applicable] after question q_idx
RECURSIVE SectionLoop(_, _, _, _, _)
SectionLoop(n, section_idx, responses, answer_points, acc) ==
  IF n = 0 THEN acc
  ELSE
    LET prev == SectionLoop(n - 1, section_idx, responses, answer_points, acc)
        response == RespGet(responses, <<section_idx, n - 1>>)
        point == IF Truthy(response)
                   THEN ResolvePoint(response, answer_points) ELSE None
    IN  IF point = None THEN prev
        ELSE [total |-> RAdd(prev.total, point),
              applicable |-> prev.applicable + 1]

calculate_section_score(section, responses, answer_points) ==
  LET questions == IF Has(section, "questions") THEN section.questions ELSE <<>>
      section_idx == IF Has(section, "index") THEN section.index ELSE 0
      r == SectionLoop(Len(questions), section_idx, responses, answer_points,
                       [total |-> Zero, applicable |-> 0])
  IN  IF Len(questions) = 0 \/ r.applicable = 0 THEN None
      ELSE RDiv(r.total, <<r.applicable, 1>>)

-----------------------------------------------------------------------------
\* Scoring: the correction pass

full_compliance_patterns ==
  <<
     \* "yes, with"
     <<"y", "e", "s", ",", " ", "w", "i", "t", "h">>,
     \* "notices are provided in english and all"
     <<"n", "o", "t", "i", "c", "e", "s", " ", "a", "r", "e", " ",
       "p", "r", "o", "v", "i", "d", "e", "d", " ", "i", "n", " ",
       "e", "n", "g", "l", "i", "s", "h", " ", "a", "n", "d", " ",
       "a", "l", "l">>,
     \* "comprehensive"
     <<"c", "o", "m", "p", "r", "e", "h", "e", "n", "s", "i", "v",
       "e">>,
     \* "robust"
     <<"r", "o", "b", "u", "s", "t">>,
     \* "full"
     <<"f", "u", "l", "l">>,
     \* "strict adherence"
     <<"s", "t", "r", "i", "c", "t", " ", "a", "d", "h", "e", "r",
       "e", "n", "c", "e">>,
     \* "established procedures"
     <<"e", "s", "t", "a", "b", "l", "i", "s", "h", "e", "d", " ",
       "p", "r", "o", "c", "e", "d", "u", "r", "e", "s">>,
     \* "clear verification"
     <<"c", "l", "e", "a", "r", " ", "v", "e", "r", "i", "f", "i",
       "c", "a", "t", "i", "o", "n">>,
     \* "dedicated"
     <<"d", "e", "d", "i", "c", "a", "t", "e", "d">>
  >>

\* should_have_perfect_score: every response contains one of the phrases
should_have_perfect_score(section_name, section_responses) ==
  IF Len(section_responses) = 0
       \/ \E i \in 1..Len(section_responses) : section_responses[i] = NoneResp
    THEN FALSE
    ELSE
      LET matching == {i \in 1..Len(section_responses) :
                         \E p \in 1..Len(full_compliance_patterns) :
                           Contains(full_compliance_patterns[p],
                                    Lower(section_responses[i]))}
      IN  Cardinality(matching) = Len(section_responses)

\* a floor of 0.9 in place of 0.95
PrecisionFloor_Lower == <<9, 10>>

PrecisionFloor == <<19, 20>>

\* verify_section_score with the precision rule rounding to the floor
verify_section_score_RoundsDown(section_name, raw_score, section_responses, answer_points) ==
  IF Len(section_responses) = 0
    THEN (IF raw_score # None THEN raw_score ELSE Zero)
  ELSE
    LET truthy == SelectSeq(section_responses, Truthy)
        all_one == /\ Len(truthy) > 0
                   /\ \A i \in 1..Len(truthy) :
                        DictGet(answer_points, truthy[i], Zero) = One
    IN  IF section_name = N_DCP /\ RLt(raw_score, One) /\ all_one THEN One
        ELSE IF RLt(raw_score, One)
                  /\ should_have_perfect_score(section_name, section_responses)
          THEN One
        ELSE IF RLe(PrecisionFloor, raw_score) /\ RLt(raw_score, One)
          THEN PrecisionFloor
        ELSE raw_score

\* verify_section_score; raw_score is None only with no responses
verify_section_score(section_name, raw_score, section_responses, answer_points) ==
  IF Len(section_responses) = 0
    THEN (IF raw_score # None THEN raw_score ELSE Zero)
  ELSE
    LET truthy == SelectSeq(section_responses, Truthy)
        all_one == /\ Len(truthy) > 0
                   /\ \A i \in 1..Len(truthy) :
                        DictGet(answer_points, truthy[i], Zero) = One
    IN  IF section_name = N_DCP /\ RLt(raw_score, One) /\ all_one THEN One
        ELSE IF RLt(raw_score, One)
                  /\ should_have_perfect_score(section_name, section_responses)
          THEN One
        ELSE IF RLe(PrecisionFloor, raw_score) /\ RLt(raw_score, One) THEN One
        ELSE raw_score

-----------------------------------------------------------------------------
\* Scoring: compliance level

COMPLIANCE_LEVELS ==
  << [k |-> <<17, 20>>, v |-> "Highly Compliant"],
     [k |-> <<7, 10>>, v |-> "Substantially Compliant"],
     [k |-> <<1, 2>>, v |-> "Partially Compliant"],
     [k |-> <<0, 1>>, v |-> "Non-Compliant"] >>

\* get_compliance_level with "score > threshold" in place of ">="
get_compliance_level_Strict(score) ==
  LET met == {i \in 1..Len(COMPLIANCE_LEVELS) : RLt(COMPLIANCE_LEVELS[i].k, score)}
  IN  IF met = {} THEN "Non-Compliant"
      ELSE COMPLIANCE_LEVELS[CHOOSE i \in met :
             \A j \in met : RLe(COMPLIANCE_LEVELS[j].k, COMPLIANCE_LEVELS[i].k)].v

\* get_compliance_level: the label of the largest threshold the score meets
get_compliance_level(score) ==
  LET met == {i \in 1..Len(COMPLIANCE_LEVELS) : RLe(COMPLIANCE_LEVELS[i].k, score)}
  IN  IF met = {} THEN "Non-Compliant"
      ELSE COMPLIANCE_LEVELS[CHOOSE i \in met :
             \A j \in met : RLe(COMPLIANCE_LEVELS[j].k, COMPLIANCE_LEVELS[i].k)].v

-----------------------------------------------------------------------------
\* Scoring: calculate_compliance_score, the section loop

\* section.get('name', f'Section {s_idx+1}'), s_idx counted from 0
SectionNameOf(section, s_idx) ==
  IF Has(section, "name") THEN section.name
  ELSE <<"S", "e", "c", "t", "i", "o", "n", " ">> \o Str(s_idx + 1)

QuestionsOf(section) == IF Has(section, "questions") THEN section.questions ELSE <<>>

\* the variable points of one question: the exact key's value, else the
\* value of the first table key whose lower-case form occurs in the response
InlinePoints(response, answer_points) ==
  IF response # NoneResp /\ DictHas(answer_points, response)
    THEN DictGet(answer_points, response, None)
    ELSE
      LET hits == {i \in 1..Len(answer_points) :
                     /\ Len(answer_points[i].k) > 0
                     /\ Truthy(response)
                     /\ Contains(Lower(answer_points[i].k), Lower(response))}
      IN  IF hits = {} THEN Zero
          ELSE answer_points[CHOOSE i \in hits : \A j \in hits : i <= j].v

\* what one question adds to total_points: the points, and only when
\* answer_points.get(response) is not None
InlineAdded(response, answer_points) ==
  IF response # NoneResp /\ DictGet(answer_points, response, None) # None
    THEN InlinePoints(response, answer_points)
    ELSE Zero

\* [total_points, section_responses] after the first n questions
RECURSIVE SectionScan(_, _, _, _)
SectionScan(n, s_idx, responses, answer_points) ==
  IF n = 0 THEN [total_points |-> Zero, section_responses |-> <<>>]
  ELSE
    LET prev == SectionScan(n - 1, s_idx, responses, answer_points)
        key == <<s_idx, n - 1>>
    IN  IF key \notin DOMAIN responses THEN prev
        ELSE [total_points |->
                RAdd(prev.total_points, InlineAdded(responses[key], answer_points)),
              section_responses |->
                IF responses[key] # NoneResp
                  THEN Append(prev.section_responses, responses[key])
                  ELSE prev.section_responses]

\* raw_score of a section: total_points / max_points, None without responses
RawScore(section, s_idx, responses, answer_points) ==
  LET max_points == Len(QuestionsOf(section))
      scan == SectionScan(max_points, s_idx, responses, answer_points)
  IN  IF max_points > 0 /\ Len(scan.section_responses) > 0
        THEN RDiv(scan.total_points, <<max_points, 1>>)
        ELSE None

\* SectionScore with the score stored although the section has no response
SectionScore_StoresUnanswered(section, s_idx, responses, answer_points) ==
  LET scan == SectionScan(Len(QuestionsOf(section)), s_idx, responses, answer_points)
      raw_score == RawScore(section, s_idx, responses, answer_points)
  IN  verify_section_score(SectionNameOf(section, s_idx), raw_score,
                           scan.section_responses, answer_points)

\* the value stored in section_scores for one section
SectionScore(section, s_idx, responses, answer_points) ==
  LET scan == SectionScan(Len(QuestionsOf(section)), s_idx, responses, answer_points)
      raw_score == RawScore(section, s_idx, responses, answer_points)
      verified_score ==
        verify_section_score(SectionNameOf(section, s_idx), raw_score,
                             scan.section_responses, answer_points)
  IN  IF Len(scan.section_responses) > 0 THEN verified_score ELSE None

\* section_scores after the first n sections (a dict keyed by section name)
RECURSIVE SectionScores(_, _, _, _)
SectionScores(n, sections, responses, answer_points) ==
  IF n = 0 THEN <<>>
  ELSE DictPut(SectionScores(n - 1, sections, responses, answer_points),
               SectionNameOf(sections[n], n - 1),
               SectionScore(sections[n], n - 1, responses, answer_points))

-----------------------------------------------------------------------------
\* Scoring: calculate_compliance_score, the weighted overall score

\* WeightOf with the section's own weight ignored
WeightOf_EqualSplit(section, sections) == Rat(1, Len(sections))

\* section.get('weight', 1.0 / len(sections))
WeightOf(section, sections) ==
  IF Has(section, "weight") THEN section.weight ELSE Rat(1, Len(sections))

\* [total_weighted_score, total_weight] after the first n sections
RECURSIVE WeightedSums(_, _, _)
WeightedSums(n, sections, section_scores) ==
  IF n = 0 THEN [total_weighted_score |-> Zero, total_weight |-> Zero]
  ELSE
    LET prev == WeightedSums(n - 1, sections, section_scores)
        section_score ==
          DictGet(section_scores, SectionNameOf(sections[n], n - 1), None)
        section_weight == WeightOf(sections[n], sections)
    IN  IF section_score = None THEN prev
        ELSE [total_weighted_score |->
                RAdd(prev.total_weighted_score, RMul(section_score, section_weight)),
              total_weight |-> RAdd(prev.total_weight, section_weight)]

Hundred == <<100, 1>>

\* the overall score without the division by the weight of the scored sections
OverallScore_Unnormalised(sections, section_scores) ==
  LET sums == WeightedSums(Len(sections), sections, section_scores)
  IN  IF RLt(Zero, sums.total_weight)
        THEN RMul(sums.total_weighted_score, Hundred)
        ELSE Zero

OverallScore(sections, section_scores) ==
  LET sums == WeightedSums(Len(sections), sections, section_scores)
  IN  IF RLt(Zero, sums.total_weight)
        THEN RMul(RDiv(sums.total_weighted_score, sums.total_weight), Hundred)
        ELSE Zero

HighRiskThreshold == <<3, 5>>
GoodThreshold == <<3, 4>>

\* the names of section_scores, in dict order, scored strictly below limit
NamesBelow_Inclusive(section_scores, limit) ==
  LET kept == SelectSeq(section_scores,
                        LAMBDA e : e.v # None /\ RLe(e.v, limit))
  IN  [i \in 1..Len(kept) |-> kept[i].k]

NamesBelow(section_scores, limit) ==
  LET kept == SelectSeq(section_scores,
                        LAMBDA e : e.v # None /\ RLt(e.v, limit))
  IN  [i \in 1..Len(kept) |-> kept[i].k]

\* list.sort(key=...) that puts a name before the names of equal score
RECURSIVE InsertByScore_TiesFirst(_, _, _)
InsertByScore_TiesFirst(sorted, name, section_scores) ==
  IF Len(sorted) = 0 THEN <<name>>
  ELSE IF RLe(DictGet(section_scores, name, None),
              DictGet(section_scores, sorted[Len(sorted)], None))
    THEN Append(InsertByScore_TiesFirst(SubSeq(sorted, 1, Len(sorted) - 1),
                                        name, section_scores),
                sorted[Len(sorted)])
    ELSE Append(sorted, name)

\* list.sort(key=...): the stable ascending sort, by insertion
RECURSIVE InsertByScore(_, _, _)
InsertByScore(sorted, name, section_scores) ==
  IF Len(sorted) = 0 THEN <<name>>
  ELSE IF RLt(DictGet(section_scores, name, None),
              DictGet(section_scores, sorted[Len(sorted)], None))
    THEN Append(InsertByScore(SubSeq(sorted, 1, Len(sorted) - 1), name,
                              section_scores),
                sorted[Len(sorted)])
    ELSE Append(sorted, name)

RECURSIVE SortByScore(_, _)
SortByScore(names, section_scores) ==
  IF Len(names) = 0 THEN <<>>
  ELSE InsertByScore(SortByScore(SubSeq(names, 1, Len(names) - 1), section_scores),
                     names[Len(names)], section_scores)

-----------------------------------------------------------------------------
\* Scoring: calculate_compliance_score, the recommendations

\* response.lower().strip().replace(".", "").replace(",", "")
Clean(text) == RemoveChar(RemoveChar(Strip(Lower(text)), "."), ",")

AppendNew(list, item) ==
  IF \E i \in 1..Len(list) : list[i] = item THEN list ELSE Append(list, item)

SpecificRec(text) == [kind |-> "specific", text |-> text, section |-> <<>>]
GenericRec(kind, section_name) ==
  [kind |-> kind, text |-> "", section |-> Lower(section_name)]

\* the loop over the keys of one question's recommendations map: every key
\* that matches after cleaning contributes its value
RECURSIVE PartialRecs(_, _, _, _)
PartialRecs(n, recommendations, response, list) ==
  IF n = 0 THEN list
  ELSE
    LET prev == PartialRecs(n - 1, recommendations, response, list)
        clean_response == Clean(response)
        clean_key == Clean(recommendations[n].k)
    IN  IF Contains(clean_key, clean_response) \/ Contains(clean_response, clean_key)
          THEN AppendNew(prev, SpecificRec(recommendations[n].v))
          ELSE prev

\* [raised, list]: section_recommendations after the first n questions;
\* raised when response.lower() is reached with a None response
RECURSIVE QuestionRecs(_, _, _, _)
QuestionRecs(n, questions, s_idx, responses) ==
  IF n = 0 THEN [raised |-> FALSE, list |-> <<>>]
  ELSE
    LET prev == QuestionRecs(n - 1, questions, s_idx, responses)
        key == <<s_idx, n - 1>>
        question == questions[n]
    IN  IF prev.raised \/ key \notin DOMAIN responses THEN prev
        ELSE IF ~(question.shape = "dict" /\ Has(question, "recommendations"))
          THEN prev
        ELSE IF responses[key] # NoneResp
                  /\ DictHas(question.recommendations, responses[key])
          THEN [raised |-> FALSE,
                list |-> AppendNew(prev.list,
                           SpecificRec(DictGet(question.recommendations,
                                               responses[key], "")))]
        ELSE IF Len(question.recommendations) = 0 THEN prev
        ELSE IF responses[key] = NoneResp THEN [raised |-> TRUE, list |-> prev.list]
        ELSE [raised |-> FALSE,
              list |-> PartialRecs(Len(question.recommendations),
                                   question.recommendations, responses[key],
                                   prev.list)]

\* the generic recommendations of a section without specific ones
GenericRecs(section_name, score) ==
  IF RLt(score, HighRiskThreshold)
    THEN <<GenericRec("improve_practices", section_name),
           GenericRec("develop_policies", section_name)>>
  ELSE IF RLt(score, GoodThreshold)
    THEN <<GenericRec("review_controls", section_name),
           GenericRec("enhance_practices", section_name)>>
  ELSE <<>>

\* [raised, dict]: recommendations after the first n sections; raised on
\* section["name"] or section["questions"] of a section lacking the key
RECURSIVE Recommendations(_, _, _, _)
Recommendations(n, sections, responses, section_scores) ==
  IF n = 0 THEN [raised |-> FALSE, dict |-> <<>>]
  ELSE
    LET prev == Recommendations(n - 1, sections, responses, section_scores)
        section == sections[n]
    IN  IF prev.raised THEN prev
        ELSE IF ~Has(section, "name") THEN [raised |-> TRUE, dict |-> prev.dict]
        ELSE
          LET score == DictGet(section_scores, section.name, None)
          IN  IF score = None THEN prev
              ELSE IF ~Has(section, "questions")
                THEN [raised |-> TRUE, dict |-> prev.dict]
              ELSE
                LET found == QuestionRecs(Len(section.questions), section.questions,
                                          n - 1, responses)
                    list == IF Len(found.list) = 0
                              THEN GenericRecs(section.name, score)
                              ELSE found.list
                IN  IF found.raised THEN [raised |-> TRUE, dict |-> prev.dict]
                    ELSE IF Len(list) = 0 THEN prev
                    ELSE [raised |-> FALSE,
                          dict |-> DictPut(prev.dict, section.name, list)]

-----------------------------------------------------------------------------
\* Scoring: calculate_compliance_score, the result

\* the outcome of a call that let an exception reach its caller
Raised == [raised |-> TRUE]

\* the result when st.session_state has no 'responses'
NoResponsesResult ==
  [raised |-> FALSE,
   overall_score |-> Zero,
   compliance_level |-> "Non-Compliant",
   section_scores |-> <<>>]

\* the body of calculate_compliance_score after the two early returns
ComputeScore(questionnaire, responses, regulation_code, industry_code) ==
  IF ~Has(questionnaire, "sections") THEN Raised
  ELSE
    LET sections == questionnaire.sections
        answer_points == fix_known_scoring_issues(AnswerPointsOf(questionnaire))
        section_scores ==
          SectionScores(Len(sections), sections, responses, answer_points)
        overall_score == OverallScore(sections, section_scores)
        recs == Recommendations(Len(sections), sections, responses, section_scores)
    IN  IF recs.raised THEN Raised
        ELSE [raised |-> FALSE,
              overall_score |-> overall_score,
              compliance_level |-> get_compliance_level(RDiv(overall_score, Hundred)),
              section_scores |-> section_scores,
              high_risk_areas |-> NamesBelow(section_scores, HighRiskThreshold),
              recommendations |-> recs.dict,
              improvement_priorities |->
                SortByScore(NamesBelow(section_scores, GoodThreshold), section_scores),
              regulation_code |-> regulation_code,
              industry_code |-> industry_code]

-----------------------------------------------------------------------------
\* Questionnaire loader: fix_questionnaire_weights

\* what fix_questionnaire_weights returns when it returns None
NotFixed == [fixed |-> FALSE]

\* the section with its "weight" set
WithWeight(section, weight) ==
  [f \in DOMAIN section \cup {"weight"} |->
     IF f = "weight" THEN weight ELSE section[f]]

\* sum(section["weight"] for section in sections), over the first n sections
RECURSIVE TotalWeight(_, _)
TotalWeight(n, sections) ==
  IF n = 0 THEN Zero ELSE RAdd(TotalWeight(n - 1, sections), sections[n].weight)

\* fix_questionnaire_weights with every section given the equal share
fix_questionnaire_weights_EqualShares(questionnaire) ==
  IF ~Has(questionnaire, "sections") \/ Len(questionnaire.sections) = 0
    THEN NotFixed
  ELSE
    LET sections == questionnaire.sections
        section_count == Len(sections)
    IN  [questionnaire EXCEPT !.sections =
           [i \in 1..section_count |->
              WithWeight(sections[i], Rat(1, section_count))]]

\* fix_questionnaire_weights: a missing or non-positive weight becomes the
\* equal share; a total outside [0.99, 1.01] is then normalised
fix_questionnaire_weights(questionnaire) ==
  IF ~Has(questionnaire, "sections") \/ Len(questionnaire.sections) = 0
    THEN NotFixed
  ELSE
    LET sections == questionnaire.sections
        section_count == Len(sections)
        defaulted ==
          [i \in 1..section_count |->
             IF ~Has(sections[i], "weight") \/ RLe(sections[i].weight, Zero)
               THEN WithWeight(sections[i], Rat(1, section_count))
               ELSE sections[i]]
        total_weight == TotalWeight(section_count, defaulted)
    IN  IF RLe(<<99, 100>>, total_weight) /\ RLe(total_weight, <<101, 100>>)
          THEN [questionnaire EXCEPT !.sections = defaulted]
          ELSE [questionnaire EXCEPT !.sections =
                  [i \in 1..section_count |->
                     WithWeight(defaulted[i],
                                RDiv(defaulted[i].weight, total_weight))]]

\* validate_questionnaire_structure: sections present and not empty, every
\* section with name, positive weight and questions, every record question
\* with id, text and options; a total weight outside [0.98, 1.02] is only
\* logged
validate_questionnaire_structure(questionnaire) ==
  /\ Has(questionnaire, "sections")
  /\ Len(questionnaire.sections) > 0
  /\ \A idx \in 1..Len(questionnaire.sections) :
       LET section == questionnaire.sections[idx]
       IN  /\ Has(section, "name") /\ Has(section, "weight")
           /\ Has(section, "questions")
           /\ RLt(Zero, section.weight)
           /\ \A q_idx \in 1..Len(section.questions) :
                LET question == section.questions[q_idx]
                IN  question.shape = "dict" =>
                      /\ Has(question, "id") /\ Has(question, "text")
                      /\ Has(question, "options")

\* load_questionnaire once the file was found and parsed: the document as
\* stored when it validates, else the result of fix_questionnaire_weights
\* (the function falls through and returns None when that returns None)
load_questionnaire(questionnaire) ==
  IF validate_questionnaire_structure(questionnaire) THEN questionnaire
  ELSE fix_questionnaire_weights(questionnaire)

-----------------------------------------------------------------------------
\* Questionnaire repository: get_questionnaire and its fallback

\* {"sections": []}, returned when loading raised
EmptyQuestionnaire == [sections |-> <<>>]

SampleOptions == <<"Yes, fully compliant", "Partially compliant",
                   "No, not compliant", "Not applicable">>

\* the section list of the synthesized questionnaire
FallbackSectionNames(regulation_code, industry_code) ==
  IF regulation_code = R_DPDP
    THEN IF Lower(industry_code) = I_ecommerceLower
           THEN <<N_DPDP_DCP, N_DPDP_DPR, N_DPDP_DBS, N_DPDP_GD>>
           ELSE <<N_DCP, N_DPR>>
    ELSE <<N_DataCollection, N_DataProcessing>>

\* st.session_state.locked_questionnaire_type: its only writer,
\* helpers.fix_questionnaire_selection, has no caller, so it is never set
locked_questionnaire_type == "unset"

\* a stored file: absent, unreadable (json.load raises) or a document
FileExists(storage, regulation, file) ==
  DictHas(storage, regulation) /\ DictHas(DictGet(storage, regulation, <<>>), file)

FileContent(storage, regulation, file) ==
  DictGet(DictGet(storage, regulation, <<>>), file, [readable |-> FALSE])

create_fallback_questionnaire(regulation_code, industry_code, storage) ==
  LET switch == /\ locked_questionnaire_type = "e-commerce"
                /\ Lower(industry_code) # I_ecommerceLower
      industry == IF switch THEN I_ecommerceLower ELSE industry_code
      ecommerce_file == I_Ecommerce \o DotJson
      section_names == FallbackSectionNames(regulation_code, industry)
  IN  IF /\ switch
         /\ FileExists(storage, regulation_code, ecommerce_file)
         /\ FileContent(storage, regulation_code, ecommerce_file).readable
        THEN FileContent(storage, regulation_code, ecommerce_file).doc
        ELSE [sections |->
                [i \in 1..Len(section_names) |->
                   [name |-> section_names[i],
                    weight |-> Rat(1, Len(section_names)),
                    questions |->
                      <<[shape |-> "dict",
                         text |-> <<"Sample question for ">> \o section_names[i],
                         options |-> SampleOptions]>>]]]

\* os.listdir(reg_dir): the file names of a collection, in directory order
ListDir(storage, regulation) ==
  LET files == DictGet(storage, regulation, <<>>)
  IN  [i \in 1..Len(files) |-> files[i].k]

\* FoundFile with the NPC document looked up by industry like the others
FoundFile_NpcByIndustry(regulation, industry, storage) ==
  LET wanted == industry \o DotJson
  IN  IF regulation = R_PDPPL
        THEN IF FileExists(storage, regulation, wanted) THEN wanted
             ELSE
               LET files == SelectSeq(ListDir(storage, regulation),
                              LAMBDA f : Len(f) >= 5 /\
                                SubSeq(Lower(f), Len(f) - 4, Len(f)) = DotJson)
                   matches == SelectSeq(files, LAMBDA f : Lower(f) = Lower(wanted))
               IN  IF Len(matches) > 0 THEN matches[1] ELSE I_OilGas \o DotJson
      ELSE IF regulation = R_NPC
        THEN IF FileExists(storage, regulation, wanted) THEN wanted
             ELSE I_npc \o DotJson
      ELSE IF regulation = R_OAIC
        THEN IF FileExists(storage, regulation, wanted) THEN wanted
             ELSE I_General \o DotJson
      ELSE IF FileExists(storage, regulation, wanted) THEN wanted
           ELSE I_Banking \o DotJson

\* the file name get_questionnaire settles on, per regulation
FoundFile(regulation, industry, storage) ==
  LET wanted == industry \o DotJson
  IN  IF regulation = R_PDPPL
        THEN IF FileExists(storage, regulation, wanted) THEN wanted
             ELSE
               LET files == SelectSeq(ListDir(storage, regulation),
                              LAMBDA f : Len(f) >= 5 /\
                                SubSeq(Lower(f), Len(f) - 4, Len(f)) = DotJson)
                   matches == SelectSeq(files, LAMBDA f : Lower(f) = Lower(wanted))
               IN  IF Len(matches) > 0 THEN matches[1] ELSE I_OilGas \o DotJson
      ELSE IF regulation = R_NPC THEN I_npc \o DotJson
      ELSE IF regulation = R_OAIC
        THEN IF FileExists(storage, regulation, wanted) THEN wanted
             ELSE I_General \o DotJson
      ELSE IF FileExists(storage, regulation, wanted) THEN wanted
           ELSE I_Banking \o DotJson

\* the body of get_questionnaire after the cache-flag check: the document
\* it returns, {"sections": []} when open() or json.load raised
LoadQuestionnaire(regulation_arg, industry_arg, storage) ==
  LET regulation == Upper(Strip(regulation_arg))
      industry == Lower(Strip(industry_arg))
      found_file == FoundFile(regulation, industry, storage)
  IN  IF ~DictHas(storage, regulation)
        THEN create_fallback_questionnaire(regulation, industry, storage)
      ELSE IF regulation = R_NPC /\ ~FileExists(storage, regulation, found_file)
        THEN create_fallback_questionnaire(regulation, industry, storage)
      ELSE IF FileExists(storage, regulation, found_file)
                /\ FileContent(storage, regulation, found_file).readable
        THEN FileContent(storage, regulation, found_file).doc
      ELSE EmptyQuestionnaire

-----------------------------------------------------------------------------
\* Rule-set documents and response texts the model draws its inputs from

DictQuestion(id) ==
  [shape |-> "dict", id |-> id, text |-> id, options |-> <<"Yes", "No">>]

StringQuestion(text) == [shape |-> "str", text |-> text]

\* two sections of weight 0.5 with two questions each, no answer_points
Q_Balanced ==
  [sections |->
     <<[name |-> N_DCP, weight |-> Half,
        questions |-> <<DictQuestion("q1"), DictQuestion("q2")>>],
       [name |-> N_DPR, weight |-> Half,
        questions |-> <<DictQuestion("q1"), StringQuestion("q2")>>]>>]

\* one section with three questions, no answer_points
Q_Single ==
  [sections |->
     <<[name |-> N_Security, weight |-> One,
        questions |-> <<DictQuestion("q1"), DictQuestion("q2"),
                        DictQuestion("q3")>>]>>]

CustomAnswerPoints ==
  << [k |-> T_Yes, v |-> One],
     [k |-> T_Mostly, v |-> <<97, 100>>],
     [k |-> T_RobustPartial, v |-> Half],
     [k |-> T_SomewhatDone, v |-> <<3, 5>>],
     [k |-> T_No, v |-> Zero],
     [k |-> T_NoNotApplicable, v |-> None] >>

\* unequal weights and an answer_points table of its own
Q_Custom ==
  [sections |->
     <<[name |-> N_DCP, weight |-> <<3, 10>>,
        questions |-> <<DictQuestion("q1")>>],
       [name |-> N_Security, weight |-> <<7, 10>>,
        questions |-> <<DictQuestion("q1"), DictQuestion("q2")>>]>>,
   answer_points |-> CustomAnswerPoints]

\* a question that carries a recommendations map, next to one that does not
AdviceQuestion(id) ==
  [shape |-> "dict", id |-> id, text |-> id, options |-> <<"Yes", "No">>,
   recommendations |-> <<[k |-> T_No, v |-> "document the procedure"],
                         [k |-> T_NotApplicable, v |-> "record the reason"]>>]

Q_Advice ==
  [sections |->
     <<[name |-> N_DPR, weight |-> One,
        questions |-> <<AdviceQuestion("q1"), DictQuestion("q2")>>]>>]

\* a stored document whose only section has no "name"
Q_Unnamed ==
  [sections |->
     <<[weight |-> One, questions |-> <<DictQuestion("q1")>>]>>]

\* two sections whose weights add up to 2
Q_Heavy ==
  [sections |->
     <<[name |-> N_DCP, weight |-> One,
        questions |-> <<DictQuestion("q1")>>],
       [name |-> N_Security, weight |-> One,
        questions |-> <<DictQuestion("q1")>>]>>]

Questionnaires ==
  {Q_Balanced, Q_Single, Q_Custom, Q_Advice, Q_Unnamed, Q_Heavy}

AnswerTexts ==
  {T_Yes, T_No, T_NotApplicable, T_notApplicableLower, T_SomewhatDone,
   T_Mostly, T_RobustPartial, T_YesFullDoc}

\* the keys "s{i}_q{j}" of the questions of a questionnaire
KeysOf(questionnaire) ==
  {<<i - 1, j - 1>> : i \in 1..Len(questionnaire.sections), j \in 1..3} \cap
  {key \in (0..3) \X (0..3) :
     /\ key[1] + 1 <= Len(questionnaire.sections)
     /\ key[2] + 1 <= Len(QuestionsOf(questionnaire.sections[key[1] + 1]))}

MaxAnswered == 4

\* the response maps over a set of keys: each key absent, None or a text
ResponseMaps(keys) ==
  UNION {[present -> AnswerTexts \cup {NoneResp}] :
           present \in {p \in SUBSET keys : Cardinality(p) <= MaxAnswered}}

-----------------------------------------------------------------------------
\* The session: rule-set files, the two caches, the response map, the clock

\* the stored document of the session's regulation
Q_Session ==
  [sections |->
     <<[name |-> N_DCP, weight |-> One,
        questions |-> <<DictQuestion("q1"), DictQuestion("q2")>>]>>]

Q_Npc ==
  [sections |->
     <<[name |-> N_NPC_DMS, weight |-> One,
        questions |-> <<DictQuestion("q1")>>]>>]

Document(doc) == [readable |-> TRUE, doc |-> doc]
Unreadable == [readable |-> FALSE]

StorageFull ==
  << [k |-> R_DPDP, v |-> <<[k |-> I_Banking \o DotJson, v |-> Document(Q_Session)]>>],
     [k |-> R_NPC, v |-> <<[k |-> I_npc \o DotJson, v |-> Document(Q_Npc)]>>] >>

\* the session's document with an answer_points table that scores the
\* notices answer 0.0
Q_Notices ==
  [sections |->
     <<[name |-> N_DCP, weight |-> One,
        questions |-> <<DictQuestion("q1"), DictQuestion("q2")>>]>>,
   answer_points |->
     <<[k |-> T_Yes, v |-> One], [k |-> T_No, v |-> Zero],
       [k |-> notices_key, v |-> Zero]>>]

StorageNotices ==
  << [k |-> R_DPDP, v |-> <<[k |-> I_Banking \o DotJson, v |-> Document(Q_Notices)]>>],
     [k |-> R_NPC, v |-> <<[k |-> I_npc \o DotJson, v |-> Document(Q_Npc)]>>] >>

\* the argument pairs (regulation, industry) the callers pass
SessionPairs == {<<R_DPDP, I_Banking>>}
RepoPairs ==
  {<<R_DPDP, I_Banking>>, <<R_dpdpLower, I_Ecommerce>>, <<R_NPC, I_General>>,
   <<R_NPC, I_npc>>, <<R_PDPPL, I_oilGasLower>>, <<R_OAIC, I_Retail>>}
\* the pairs the report page and the assessment page pass for "Qatar"
ReportPairs ==
  {<<R_NPC, I_General>>, <<R_NPC, I_npc>>, <<R_PDPPL, I_OilGas>>,
   <<R_PDPPL, I_General>>}
Pairs == SessionPairs \cup RepoPairs \cup ReportPairs

SessionKeys == {<<0, 0>>, <<0, 1>>}
SessionTexts == {T_Yes, T_No}

MaxTime == 2

NotCached == [cached |-> FALSE]
NoScore == [has |-> FALSE]
NoCall == [some |-> FALSE]

\* one call of the cached get_questionnaire: the document returned and the
\* cache and flag after it; the body runs only on a miss (maxsize=32 is more
\* entries than there are argument pairs, so nothing is evicted)
GetQuestionnaireCall(pair, cache, flag, files) ==
  IF cache[pair].cached
    THEN [doc |-> cache[pair].doc, lru |-> cache, flag |-> flag, loaded |-> FALSE]
    ELSE
      LET doc == LoadQuestionnaire(pair[1], pair[2], files)
          kept == IF flag THEN [p \in Pairs |-> NotCached] ELSE cache
      IN  [doc |-> doc,
           lru |-> [kept EXCEPT ![pair] = [cached |-> TRUE, doc |-> doc]],
           flag |-> FALSE,
           loaded |-> TRUE]

\* the cached questionnaire object after calculate_compliance_score ran
\* fix_known_scoring_issues on its answer_points (the dict is patched in place)
PatchInPlace(doc) ==
  IF Has(doc, "sections") /\ Has(doc, "answer_points") /\ Len(doc.answer_points) > 0
    THEN [doc EXCEPT !.answer_points = fix_known_scoring_issues(doc.answer_points)]
    ELSE doc

\* the one-second result cache: a stored result younger than CacheWindow
CacheWindow == 1

ScoreCacheHit(pair, cache, time) ==
  /\ cache[pair].has
  /\ time - cache[pair].time < CacheWindow
  /\ cache[pair].result.regulation_code = pair[1]
  /\ cache[pair].result.industry_code = pair[2]

-----------------------------------------------------------------------------
\* The report page: views.render_report and the selections it depends on

\* st.session_state.results before any assessment was completed
NoResults == [overall_score |-> None]

\* the report page's keys before the welcome page has run
NoReport ==
  [selected_industry |-> "Oil and Gas", assessment_complete |-> FALSE,
   results |-> NoResults, report_cache_cleared |-> FALSE,
   auto_fixing_mismatch |-> FALSE, fixes |-> 0, outcome |-> "none"]

\* the industries the welcome page offers for the country "Qatar"
industry_options == {"Oil and Gas", "General"}

\* utils.get_regulation_and_industry_for_loader for selected_country "Qatar"
get_regulation_and_industry_for_loader(selected_industry) ==
  IF selected_industry = "General" THEN <<R_NPC, I_npc>> ELSE <<R_PDPPL, I_OilGas>>

\* industry_file_map.get(selected_industry, selected_industry) of the views
IndustryForCalc(selected_industry) ==
  IF selected_industry = "General" THEN I_General ELSE I_OilGas

\* the pair render_assessment scores with: NPC for Qatar and General,
\* regulation_map["Qatar"] otherwise
AssessmentPair(selected_industry) ==
  IF selected_industry = "General"
    THEN <<R_NPC, IndustryForCalc(selected_industry)>>
    ELSE <<R_PDPPL, IndustryForCalc(selected_industry)>>

\* the pair render_report recalculates with: regulation_map["Qatar"]
RecalcPair(selected_industry) == <<R_PDPPL, IndustryForCalc(selected_industry)>>

\* list(results.get("section_scores", {}).keys())
SectionNamesOf(results) ==
  IF Has(results, "section_scores")
    THEN {results.section_scores[i].k : i \in 1..Len(results.section_scores)}
    ELSE {}

\* the stale-results test at the head of render_report
StaleResults(regulation_for_loader, names) ==
  /\ regulation_for_loader = R_NPC
  /\ \E name \in names :
       \/ Contains(R_PDPPL, name)
       \/ Contains(<<"P", "r", "i", "n", "c", "i", "p", "l", "e", "s", " ", "o",
                   "f", " ", "D", "a", "t", "a", " ", "P", "r", "i", "v", "a",
                   "c", "y">>, name)

\* questionnaire_mismatch of render_report
QuestionnaireMismatch(regulation_for_loader, names) ==
  \/ regulation_for_loader = R_NPC /\ \E name \in names : Contains(R_PDPPL, name)
  \/ regulation_for_loader = R_PDPPL /\ \E name \in names : Contains(N_NPC_DMS, name)

-----------------------------------------------------------------------------
\* Actions of the session

Init ==
  /\ rule_sets \in {StorageFull, StorageNotices}
  /\ lru = [p \in Pairs |-> NotCached]
  /\ clear_questionnaire_cache = FALSE
  /\ session_responses = <<>>
  /\ now = 0
  /\ score_cache = [p \in Pairs |-> NoScore]
  /\ op = [name |-> "init"]
  /\ ret = None
  /\ last_calc = NoCall
  /\ prev_calc = NoCall
  /\ report = NoReport

\* helpers.save_response: store the answer of one question
SaveResponse(key, text) ==
  /\ session_responses' =
       [k \in DOMAIN session_responses \cup {key} |->
          IF k = key THEN text ELSE session_responses[k]]
  /\ op' = [name |-> "save_response", key |-> key, text |-> text]
  /\ ret' = None
  /\ UNCHANGED <<rule_sets, lru, clear_questionnaire_cache, now, score_cache,
                 last_calc, prev_calc, report>>

\* one second passes
Tick ==
  /\ now < MaxTime
  /\ now' = now + 1
  /\ UNCHANGED <<rule_sets, lru, clear_questionnaire_cache, session_responses,
                 score_cache, op, ret, last_calc, prev_calc, report>>

\* helpers.clear_questionnaire_cache: the caller raises the cache-control flag
ClearQuestionnaireCache ==
  /\ clear_questionnaire_cache' = TRUE
  /\ op' = [name |-> "clear_questionnaire_cache"]
  /\ ret' = None
  /\ UNCHANGED <<rule_sets, lru, session_responses, now, score_cache,
                 last_calc, prev_calc, report>>

\* a caller resolves a rule set: get_questionnaire(regulation, industry)
GetQuestionnaire(pair) ==
  LET call == GetQuestionnaireCall(pair, lru, clear_questionnaire_cache, rule_sets)
  IN  /\ lru' = call.lru
      /\ clear_questionnaire_cache' = call.flag
      /\ op' = [name |-> "get_questionnaire", pair |-> pair,
                flag_before |-> clear_questionnaire_cache,
                cached_before |-> lru[pair].cached,
                loaded |-> call.loaded]
      /\ ret' = call.doc
      /\ UNCHANGED <<rule_sets, session_responses, now, score_cache,
                     last_calc, prev_calc, report>>

\* one call of calculate_compliance_score: the result returned and the two
\* caches and the flag after it
CalculateCall(pair, cache, flag, scores, time, files, responses) ==
  IF ScoreCacheHit(pair, scores, time)
    THEN [result |-> scores[pair].result, cache_hit |-> TRUE,
          lru |-> cache, flag |-> flag, score_cache |-> scores]
    ELSE
      LET call == GetQuestionnaireCall(pair, cache, flag, files)
          result == ComputeScore(call.doc, responses, pair[1], pair[2])
      IN  [result |-> result, cache_hit |-> FALSE,
           lru |-> [call.lru EXCEPT ![pair] =
                      [cached |-> TRUE, doc |-> PatchInPlace(call.doc)]],
           flag |-> call.flag,
           score_cache |-> IF result.raised THEN scores
                           ELSE [scores EXCEPT ![pair] =
                                   [has |-> TRUE, time |-> time, result |-> result]]]

\* calculate_compliance_score(regulation_code, industry_code)
Calculate(pair) ==
  \E call \in {CalculateCall(pair, lru, clear_questionnaire_cache, score_cache,
                             now, rule_sets, session_responses)} :
    /\ lru' = call.lru
    /\ clear_questionnaire_cache' = call.flag
    /\ score_cache' = call.score_cache
    /\ ret' = call.result
    /\ op' = [name |-> "calculate", pair |-> pair, cache_hit |-> call.cache_hit]
    /\ prev_calc' = last_calc
    /\ last_calc' = [some |-> TRUE, pair |-> pair,
                     responses |-> session_responses, result |-> call.result]
    /\ UNCHANGED <<rule_sets, session_responses, now, report>>

Next ==
  \/ \E key \in SessionKeys, text \in SessionTexts : SaveResponse(key, text)
  \/ Tick
  \/ ClearQuestionnaireCache
  \/ \E pair \in SessionPairs : Calculate(pair)

Spec == Init /\ [][Next]_vars

-----------------------------------------------------------------------------
\* The scoring functions applied to inputs drawn from the bounded sets

Unused == <<rule_sets, lru, clear_questionnaire_cache, session_responses, now,
            score_cache, last_calc, prev_calc, report>>

\* the raw scores of the sections, in questionnaire order
RawScores(questionnaire, responses) ==
  LET answer_points == fix_known_scoring_issues(AnswerPointsOf(questionnaire))
  IN  [i \in 1..Len(questionnaire.sections) |->
         RawScore(questionnaire.sections[i], i - 1, responses, answer_points)]

RawScoreInputs ==
  {Zero, Half, <<2, 3>>, <<47, 50>>, <<19, 20>>, <<97, 100>>, One}

MaxResponses == 2

ResponseLists ==
  UNION {[1..n -> AnswerTexts \cup {NoneResp}] : n \in 0..MaxResponses}

AnswerTables == {DefaultAnswerPoints, CustomAnswerPoints}

\* the keys of one section as calculate_section_score reads them
SectionKeys(section) ==
  {<<IF Has(section, "index") THEN section.index ELSE 0, j - 1>> :
     j \in 1..Len(QuestionsOf(section))}

MaxSections == 3

\* the weights a stored section carries; None stands for a missing "weight"
\* scores on both sides of every threshold of COMPLIANCE_LEVELS
LevelInputs ==
  {Zero, <<49, 100>>, Half, <<69, 100>>, <<7, 10>>, <<21, 25>>, <<17, 20>>,
   <<99, 100>>, One}

WeightInputs ==
  {None, <<-1, 2>>, Zero, <<1, 4>>, <<99, 200>>, Half, One, <<3, 1>>}

\* the questionnaires of up to MaxSections sections with these weights
WeightedQuestionnaires ==
  LET Section(weight) ==
        IF weight = None THEN [name |-> N_Security, questions |-> <<>>]
        ELSE [name |-> N_Security, questions |-> <<>>, weight |-> weight]
  IN  {[sections |-> [i \in 1..Len(weights) |-> Section(weights[i])]] :
         weights \in UNION {[1..m -> WeightInputs] : m \in 0..MaxSections}}

\* the inputs of one call, not yet applied
InitScore ==
  /\ rule_sets = StorageFull
  /\ lru = [p \in Pairs |-> NotCached]
  /\ clear_questionnaire_cache = FALSE
  /\ session_responses = <<>>
  /\ now = 0
  /\ score_cache = [p \in Pairs |-> NoScore]
  /\ ret = None
  /\ last_calc = NoCall
  /\ prev_calc = NoCall
  /\ report = NoReport
  /\ \/ \E questionnaire \in Questionnaires :
          \E responses \in ResponseMaps(KeysOf(questionnaire)) :
            op = [name |-> "calculate", done |-> FALSE, has_responses |-> TRUE,
                  questionnaire |-> questionnaire, responses |-> responses]
     \/ \E questionnaire \in Questionnaires :
          op = [name |-> "calculate", done |-> FALSE, has_responses |-> FALSE,
                questionnaire |-> questionnaire, responses |-> <<>>]
     \/ \E questionnaire \in Questionnaires :
          \E s \in 1..Len(questionnaire.sections) :
            \E responses \in ResponseMaps(SectionKeys(questionnaire.sections[s])) :
              op = [name |-> "calculate_section_score", done |-> FALSE,
                    questionnaire |-> questionnaire, section |-> s,
                    responses |-> responses]
     \/ \E response \in AnswerTexts \cup {T_yesLower},
           answer_points \in AnswerTables :
          op = [name |-> "resolve_points", done |-> FALSE,
                response |-> response, answer_points |-> answer_points]
     \/ \E section_name \in {N_DCP, N_Security}, raw_score \in RawScoreInputs,
           section_responses \in ResponseLists, answer_points \in AnswerTables :
          op = [name |-> "verify_section_score", done |-> FALSE,
                section_name |-> section_name, raw_score |-> raw_score,
                section_responses |-> section_responses,
                answer_points |-> answer_points]
     \/ \E questionnaire \in WeightedQuestionnaires :
          op = [name |-> "fix_questionnaire_weights", done |-> FALSE,
                questionnaire |-> questionnaire]
     \/ \E score \in LevelInputs :
          op = [name |-> "get_compliance_level", done |-> FALSE, score |-> score]
     \/ \E questionnaire \in WeightedQuestionnaires :
          op = [name |-> "load_questionnaire", done |-> FALSE,
                questionnaire |-> questionnaire]

\* calculate_compliance_score on a questionnaire and a response map, or
\* on a session state without 'responses'
ApplyCalculate ==
  /\ op.name = "calculate" /\ ~op.done
  /\ op' = [op EXCEPT !.done = TRUE]
  /\ ret' = [result |-> IF op.has_responses
                          THEN ComputeScore(op.questionnaire, op.responses,
                                            R_DPDP, I_Banking)
                          ELSE NoResponsesResult,
             raw_scores |-> RawScores(op.questionnaire, op.responses)]
  /\ UNCHANGED Unused

\* calculate_section_score on one section of a questionnaire
ApplySectionScore ==
  /\ op.name = "calculate_section_score" /\ ~op.done
  /\ op' = [op EXCEPT !.done = TRUE]
  /\ ret' = calculate_section_score(op.questionnaire.sections[op.section],
                                    op.responses, AnswerPointsOf(op.questionnaire))
  /\ UNCHANGED Unused

\* the point resolution of one response text, by both scorers
ApplyResolve ==
  /\ op.name = "resolve_points" /\ ~op.done
  /\ op' = [op EXCEPT !.done = TRUE]
  /\ ret' = [section_scorer |-> ResolvePoint(op.response, op.answer_points),
             points |-> InlinePoints(op.response, op.answer_points),
             added |-> InlineAdded(op.response, op.answer_points)]
  /\ UNCHANGED Unused

\* verify_section_score on a name, a raw score and a list of responses
ApplyVerify ==
  /\ op.name = "verify_section_score" /\ ~op.done
  /\ op' = [op EXCEPT !.done = TRUE]
  /\ ret' = verify_section_score(op.section_name, op.raw_score,
                                 op.section_responses, op.answer_points)
  /\ UNCHANGED Unused

\* fix_questionnaire_weights on a stored questionnaire
ApplyFixWeights ==
  /\ op.name = "fix_questionnaire_weights" /\ ~op.done
  /\ op' = [op EXCEPT !.done = TRUE]
  /\ ret' = fix_questionnaire_weights(op.questionnaire)
  /\ UNCHANGED Unused

\* get_compliance_level on a score between 0 and 1
ApplyLevel ==
  /\ op.name = "get_compliance_level" /\ ~op.done
  /\ op' = [op EXCEPT !.done = TRUE]
  /\ ret' = get_compliance_level(op.score)
  /\ UNCHANGED Unused

\* load_questionnaire on a stored questionnaire
ApplyLoad ==
  /\ op.name = "load_questionnaire" /\ ~op.done
  /\ op' = [op EXCEPT !.done = TRUE]
  /\ ret' = load_questionnaire(op.questionnaire)
  /\ UNCHANGED Unused

NextScore ==
  \/ ApplyCalculate
  \/ ApplySectionScore
  \/ ApplyResolve
  \/ ApplyVerify
  \/ ApplyFixWeights
  \/ ApplyLevel
  \/ ApplyLoad

SpecScore == InitScore /\ [][NextScore]_vars

-----------------------------------------------------------------------------
\* The repository over the states of the rule-set storage

Q_Ecommerce ==
  [sections |->
     <<[name |-> N_DPDP_DCP, weight |-> Half,
        questions |-> <<DictQuestion("q1")>>],
       [name |-> N_DPDP_DPR, weight |-> Half,
        questions |-> <<StringQuestion("q1")>>]>>]

Collection(regulation, files) == [k |-> regulation, v |-> files]
StoredFile(name, content) == [k |-> name \o DotJson, v |-> content]

\* the states of one regulation's collection; no entry when it is missing
DpdpCollections ==
  { <<>>,
    <<Collection(R_DPDP, <<>>)>>,
    <<Collection(R_DPDP, <<StoredFile(I_Banking, Unreadable)>>)>>,
    <<Collection(R_DPDP, <<StoredFile(I_Banking, Document(Q_Session))>>)>>,
    <<Collection(R_DPDP, <<StoredFile(I_Ecommerce, Document(Q_Ecommerce))>>)>>,
    <<Collection(R_DPDP, <<StoredFile(I_Banking, Document(Q_Session)),
                           StoredFile(I_ecommerceLower, Document(Q_Ecommerce))>>)>> }

NpcCollections ==
  { <<>>,
    <<Collection(R_NPC, <<>>)>>,
    <<Collection(R_NPC, <<StoredFile(I_npc, Document(Q_Npc))>>)>>,
    <<Collection(R_NPC, <<StoredFile(Lower(I_General), Document(Q_Single)),
                          StoredFile(I_npc, Document(Q_Npc))>>)>> }

PdpplCollections ==
  { <<>>,
    <<Collection(R_PDPPL, <<>>)>>,
    <<Collection(R_PDPPL, <<StoredFile(I_OilGas, Document(Q_Single))>>)>> }

OaicCollections ==
  { <<>>,
    <<Collection(R_OAIC, <<StoredFile(I_General, Document(Q_Balanced))>>)>> }

\* the states of the storage: each regulation's collection in each of its states
StorageLayouts ==
  {d \o n \o p \o o : d \in DpdpCollections, n \in NpcCollections,
                      p \in PdpplCollections, o \in OaicCollections}

InitRepo ==
  /\ rule_sets \in StorageLayouts
  /\ lru = [p \in Pairs |-> NotCached]
  /\ clear_questionnaire_cache = FALSE
  /\ session_responses = <<>>
  /\ now = 0
  /\ score_cache = [p \in Pairs |-> NoScore]
  /\ op = [name |-> "init"]
  /\ ret = None
  /\ last_calc = NoCall
  /\ prev_calc = NoCall
  /\ report = NoReport

NextRepo ==
  \/ \E pair \in RepoPairs : GetQuestionnaire(pair)
  \/ ClearQuestionnaireCache

SpecRepo == InitRepo /\ [][NextRepo]_vars

-----------------------------------------------------------------------------
\* The report page of a Qatar session: the PDPPL and NPC rule sets, an
\* assessment completed for one industry, the industry selection changed
\* afterwards, and the script runs of render_report

N_PDPPL ==
  <<"P", "D", "P", "P", "L", " ", "D", "a", "t", "a", " ", "P",
    "r", "i", "v", "a", "c", "y", " ", "P", "r", "i", "n", "c",
    "i", "p", "l", "e", "s">>

\* the PDPPL document of the industry "Oil and Gas"
Q_Pdppl ==
  [sections |->
     <<[name |-> N_PDPPL, weight |-> One,
        questions |-> <<DictQuestion("q1"), DictQuestion("q2")>>]>>]

StorageReport ==
  << Collection(R_PDPPL, <<StoredFile(I_OilGas, Document(Q_Pdppl))>>),
     Collection(R_NPC, <<StoredFile(I_npc, Document(Q_Npc))>>) >>

InitReport ==
  /\ rule_sets = StorageReport
  /\ lru = [p \in Pairs |-> NotCached]
  /\ clear_questionnaire_cache = FALSE
  /\ session_responses \in UNION {[keys -> SessionTexts] : keys \in SUBSET SessionKeys}
  /\ now = 0
  /\ score_cache = [p \in Pairs |-> NoScore]
  /\ op = [name |-> "init"]
  /\ ret = None
  /\ last_calc = NoCall
  /\ prev_calc = NoCall
  /\ \E selected_industry \in industry_options :
       report = [NoReport EXCEPT !.selected_industry = selected_industry]

\* the welcome page: the user picks another industry
SelectIndustry(selected_industry) ==
  /\ selected_industry # report.selected_industry
  /\ report' = [report EXCEPT !.selected_industry = selected_industry,
                              !.fixes = 0, !.outcome = "none"]
  /\ op' = [name |-> "select_industry", selected_industry |-> selected_industry]
  /\ ret' = None
  /\ UNCHANGED <<rule_sets, lru, clear_questionnaire_cache, session_responses,
                 now, score_cache, last_calc, prev_calc>>

\* render_assessment past the last section: the assessment is complete
\* and scored, and the report page is opened
CompleteAssessment ==
  /\ ~report.assessment_complete
  /\ \E call \in {CalculateCall(AssessmentPair(report.selected_industry), lru,
                                clear_questionnaire_cache, score_cache, now,
                                rule_sets, session_responses)} :
       /\ ~call.result.raised
       /\ report' = [report EXCEPT !.assessment_complete = TRUE,
                                   !.results = call.result,
                                   !.fixes = 0, !.outcome = "rerun"]
       /\ lru' = call.lru
       /\ clear_questionnaire_cache' = call.flag
       /\ score_cache' = call.score_cache
       /\ op' = [name |-> "complete_assessment"]
       /\ ret' = call.result
       /\ UNCHANGED <<rule_sets, session_responses, now, last_calc, prev_calc>>

\* one script run of render_report on a completed assessment
RenderReport ==
  LET flag0 == IF report.report_cache_cleared THEN clear_questionnaire_cache
               ELSE TRUE
      loader == get_regulation_and_industry_for_loader(report.selected_industry)
      recalc == RecalcPair(report.selected_industry)
      stale == StaleResults(loader[1], SectionNamesOf(report.results))
  IN  /\ report.assessment_complete
      /\ \E first \in {IF stale
                          THEN CalculateCall(recalc, lru, TRUE, score_cache, now,
                                             rule_sets, session_responses)
                          ELSE [result |-> report.results, lru |-> lru,
                                flag |-> flag0, score_cache |-> score_cache]} :
           \E questionnaire \in {GetQuestionnaireCall(loader, first.lru,
                                                       first.flag, rule_sets)} :
             LET questionnaire_mismatch ==
                   QuestionnaireMismatch(loader[1], SectionNamesOf(first.result))
             IN  IF questionnaire_mismatch /\ ~report.auto_fixing_mismatch
                   THEN \* recalculate after time.sleep(1), reset the flag,
                        \* st.rerun()
                        /\ now < MaxTime
                        /\ now' = now + 1
                        /\ \E second \in {CalculateCall(recalc, questionnaire.lru,
                                                         TRUE, first.score_cache,
                                                         now + 1, rule_sets,
                                                         session_responses)} :
                             /\ lru' = second.lru
                             /\ clear_questionnaire_cache' = second.flag
                             /\ score_cache' = second.score_cache
                             /\ report' =
                                  [report EXCEPT !.report_cache_cleared = TRUE,
                                                 !.results = second.result,
                                                 !.auto_fixing_mismatch = FALSE,
                                                 !.fixes = report.fixes + 1,
                                                 !.outcome = "rerun"]
                        /\ op' = [name |-> "render_report", stale |-> stale,
                                  mismatch |-> TRUE, recalculated |-> TRUE]
                   ELSE \* the report is shown with the results as they are
                        /\ now' = now
                        /\ lru' = questionnaire.lru
                        /\ clear_questionnaire_cache' = questionnaire.flag
                        /\ score_cache' = first.score_cache
                        /\ report' =
                             [report EXCEPT !.report_cache_cleared = TRUE,
                                            !.results = first.result,
                                            !.auto_fixing_mismatch = FALSE,
                                            !.fixes = 0,
                                            !.outcome = "shown"]
                        /\ op' = [name |-> "render_report", stale |-> stale,
                                  mismatch |-> questionnaire_mismatch,
                                  recalculated |-> FALSE]
      /\ ret' = None
      /\ UNCHANGED <<rule_sets, session_responses, last_calc, prev_calc>>

NextReport ==
  \/ \E selected_industry \in industry_options : SelectIndustry(selected_industry)
  \/ CompleteAssessment
  \/ RenderReport
  \/ Tick

SpecReport == InitReport /\ [][NextReport]_vars

-----------------------------------------------------------------------------
\* What the specification expects of a section, stated on the inputs

\* the sum of f over a finite set of indices
RECURSIVE SumOver(_, _)
SumOver(S, f) ==
  IF S = {} THEN Zero
  ELSE LET x == CHOOSE y \in S : TRUE IN RAdd(f[x], SumOver(S \ {x}, f))

\* the question positions of section s (counted from 1) that carry a text
AnsweredOf(questionnaire, s, responses) ==
  {j \in 1..Len(QuestionsOf(questionnaire.sections[s])) :
     /\ <<s - 1, j - 1>> \in DOMAIN responses
     /\ responses[<<s - 1, j - 1>>] # NoneResp}

TextOf(responses, s, j) == responses[<<s - 1, j - 1>>]

\* the text is a key of the table; its value is then a number or Excluded
IsExactKey(text, answer_points) == DictHas(answer_points, text)
IsValued(text, answer_points) ==
  IsExactKey(text, answer_points) /\ DictGet(answer_points, text, None) # None

\* the text matches no key, exactly or ignoring case, and no keyword rule
IsUnmatched(text, answer_points) ==
  /\ ~IsExactKey(text, answer_points)
  /\ \A i \in 1..Len(answer_points) : Lower(answer_points[i].k) # Lower(text)
  /\ \A w \in {K_yes, K_successfully_completed, K_no, K_not_yet_completed,
               K_partial, K_needs_improvement, K_not_applicable} :
       ~Contains(w, Lower(text))

\* total points over answered count, for the positions that count
ExpectedRaw(positions, counted, responses, s, answer_points) ==
  RDiv(SumOver(positions, [j \in positions |->
                 DictGet(answer_points, TextOf(responses, s, j), Zero)]),
       <<Cardinality(counted), 1>>)

CalculateDone == op.name = "calculate" /\ op.done /\ ~ret.result.raised

-----------------------------------------------------------------------------
\* Claims

\* C1: a response that resolves to Excluded is left out of the numerator and
\* of the denominator of the section's raw score: in a section whose every
\* question is answered by a table key, the raw score is the sum of the
\* points of the non-excluded answers divided by their number.
C1_ExclusionInvariant ==
  CalculateDone =>
    \A s \in 1..Len(op.questionnaire.sections) :
      LET table == AnswerPointsOf(op.questionnaire)
          answered == AnsweredOf(op.questionnaire, s, op.responses)
          valued == {j \in answered : IsValued(TextOf(op.responses, s, j), table)}
      IN  (/\ Cardinality(answered) = Len(QuestionsOf(op.questionnaire.sections[s]))
           /\ \A j \in answered : IsExactKey(TextOf(op.responses, s, j), table)
           /\ valued # {})
          => ret.raw_scores[s] = ExpectedRaw(valued, valued, op.responses, s, table)

\* C2: an unanswered question is skipped and does not count as a zero: in a
\* section whose answers are all valued table keys, the raw score is the sum
\* of their points divided by the number of answered questions, whatever the
\* number of unanswered ones.
C2_UnansweredSkipped ==
  CalculateDone =>
    \A s \in 1..Len(op.questionnaire.sections) :
      LET table == AnswerPointsOf(op.questionnaire)
          answered == AnsweredOf(op.questionnaire, s, op.responses)
      IN  (/\ answered # {}
           /\ \A j \in answered : IsValued(TextOf(op.responses, s, j), table))
          => ret.raw_scores[s] = ExpectedRaw(answered, answered, op.responses, s, table)

\* the reported score of section s and its weight
ReportedScore(s) ==
  DictGet(ret.result.section_scores, op.questionnaire.sections[s].name, None)
WeightAt(s) == op.questionnaire.sections[s].weight

\* 100 * (sum over S of score * weight) / (sum over S of weight)
WeightedPercent(S) ==
  RMul(Hundred,
       RDiv(SumOver(S, [s \in S |-> RMul(ReportedScore(s), WeightAt(s))]),
            SumOver(S, [s \in S |-> WeightAt(s)])))

AllSections == 1..Len(op.questionnaire.sections)
UnansweredSections ==
  {s \in AllSections : AnsweredOf(op.questionnaire, s, op.responses) = {}}

\* every question of section s is answered with a text worth 1.0
FullyCompliantSection(s) ==
  /\ Cardinality(AnsweredOf(op.questionnaire, s, op.responses))
       = Len(QuestionsOf(op.questionnaire.sections[s]))
  /\ \A j \in AnsweredOf(op.questionnaire, s, op.responses) :
       DictGet(AnswerPointsOf(op.questionnaire), TextOf(op.responses, s, j), None) = One

\* C3: a section with zero answered questions is reported as unscored and
\* adds neither to the weighted sum nor to the weight total: the overall
\* score is the weighted percentage over the answered sections alone, and
\* it is 100 when every answered section is answered with 1.0-point answers.
C3_UnscoredExcluded ==
  CalculateDone =>
    /\ \A s \in UnansweredSections : ReportedScore(s) = None
    /\ (AllSections \ UnansweredSections # {}) =>
         ret.result.overall_score = WeightedPercent(AllSections \ UnansweredSections)
    /\ (/\ UnansweredSections # {}
        /\ AllSections \ UnansweredSections # {}
        /\ \A s \in AllSections \ UnansweredSections : FullyCompliantSection(s))
       => ret.result.overall_score = Hundred

\* C3 witness: one section unanswered, the other answered "Yes" twice
C3_Witness ==
  /\ CalculateDone
  /\ op.questionnaire = Q_Balanced
  /\ UnansweredSections = {2}
  /\ FullyCompliantSection(1)
  /\ ret.result.overall_score = Hundred
  /\ ReportedScore(2) = None

\* C4: with at least one scored section the overall score is
\* 100 * sum(score * weight) / sum(weight) over the scored sections; two
\* sections of weight 0.5 fully answered with 1.0-point answers give 100.0,
\* "Highly Compliant" and no high-risk area.
C4_WeightedOverall ==
  CalculateDone =>
    LET scored == {s \in AllSections : ReportedScore(s) # None}
    IN  /\ scored # {} => ret.result.overall_score = WeightedPercent(scored)
        /\ (op.questionnaire = Q_Balanced
              /\ \A s \in AllSections : FullyCompliantSection(s))
           => /\ ret.result.overall_score = Hundred
              /\ ret.result.compliance_level = "Highly Compliant"
              /\ ret.result.high_risk_areas = <<>>

\* C4 witness: two scored sections with different scores and weights
C4_Witness ==
  /\ CalculateDone
  /\ op.questionnaire = Q_Custom
  /\ ReportedScore(1) = One
  /\ ReportedScore(2) = Half
  /\ ret.result.overall_score = <<65, 1>>

\* C5: two calls of calculate with the same regulation, industry and response
\* map return equal results, whatever the time between them.
C5_Idempotent ==
  (/\ last_calc.some /\ prev_calc.some
   /\ last_calc.pair = prev_calc.pair
   /\ last_calc.responses = prev_calc.responses)
  => last_calc.result = prev_calc.result

\* C6: the corrected section score is at least the raw score, and it is the
\* raw score itself or exactly 1.0.
C6_MonotonicCorrection ==
  (op.name = "verify_section_score" /\ op.done) =>
    /\ RLe(op.raw_score, ret)
    /\ ret = op.raw_score \/ ret = One

\* C6 witness: a raw score of 0.97 raised to 1.0
C6_Witness ==
  /\ op.name = "verify_section_score" /\ op.done
  /\ op.raw_score = <<97, 100>>
  /\ Len(op.section_responses) > 0
  /\ ret = One

\* the value of the first table key equal to the text ignoring case
FirstCaseInsensitive(text, answer_points) ==
  LET hits == {i \in 1..Len(answer_points) :
                 Lower(answer_points[i].k) = Lower(text)}
  IN  answer_points[CHOOSE i \in hits : \A j \in hits : i <= j].v

\* C7: answer points are resolved first-match-wins: the value of the key
\* equal to the response; otherwise the value of the key equal to it ignoring
\* case, also when that value is Excluded.
C7_FirstMatchWins ==
  (op.name = "resolve_points" /\ op.done) =>
    /\ IsExactKey(op.response, op.answer_points) =>
         /\ ret.section_scorer = DictGet(op.answer_points, op.response, None)
         /\ ret.points = DictGet(op.answer_points, op.response, None)
    /\ (/\ ~IsExactKey(op.response, op.answer_points)
        /\ \E i \in 1..Len(op.answer_points) :
             Lower(op.answer_points[i].k) = Lower(op.response))
       => /\ ret.section_scorer = FirstCaseInsensitive(op.response, op.answer_points)
          /\ ret.points = FirstCaseInsensitive(op.response, op.answer_points)

\* C8: a response text that matches no table key and no keyword rule is
\* scored as 0 points and is counted in the section's denominator: in a
\* fully answered section whose other answers are valued table keys the
\* score is the sum of the points divided by the number of questions.
C8_UnmatchedCountsAsZero ==
  LET table == AnswerPointsOf(op.questionnaire)
      Mixed(s) ==
        LET answered == AnsweredOf(op.questionnaire, s, op.responses)
        IN  /\ Cardinality(answered) = Len(QuestionsOf(op.questionnaire.sections[s]))
            /\ \E j \in answered : IsUnmatched(TextOf(op.responses, s, j), table)
            /\ \A j \in answered :
                 \/ IsUnmatched(TextOf(op.responses, s, j), table)
                 \/ IsValued(TextOf(op.responses, s, j), table)
      Expected(s) ==
        LET answered == AnsweredOf(op.questionnaire, s, op.responses)
        IN  ExpectedRaw(answered, answered, op.responses, s, table)
  IN  /\ CalculateDone =>
           \A s \in AllSections : Mixed(s) => ret.raw_scores[s] = Expected(s)
      /\ (op.name = "calculate_section_score" /\ op.done /\ op.section = 1) =>
           (Mixed(1) => ret = Expected(1))

\* C9: after the caller sets the cache-control flag, the next resolve call,
\* also for a pair whose result is cached, drops the cached rule sets, reads
\* the document from storage, returns it and resets the flag.
C9_FlagForcesFreshResolve ==
  (op.name = "get_questionnaire" /\ op.flag_before) =>
    /\ op.loaded
    /\ ret = LoadQuestionnaire(op.pair[1], op.pair[2], rule_sets)
    /\ \A p \in Pairs \ {op.pair} : ~lru[p].cached
    /\ clear_questionnaire_cache = FALSE

\* C10: for every regulation, industry and state of the rule-set storage,
\* resolve returns a questionnaire that has at least one section with at
\* least one question.
C10_ResolveAlwaysAssessable ==
  op.name = "get_questionnaire" =>
    /\ Has(ret, "sections")
    /\ \E s \in 1..Len(ret.sections) : Len(QuestionsOf(ret.sections[s])) > 0

\* the response map without its None entries
WithoutNone(responses) ==
  [key \in {k \in DOMAIN responses : responses[k] # NoneResp} |-> responses[key]]

\* C11: an entry that maps a question key to None is equivalent to the key
\* being absent: whenever calculate returns a result on the map without its
\* None entries, it terminates normally on the map itself and returns the
\* equal result.
C11_NoneIsAbsent ==
  (op.name = "calculate" /\ op.done /\ op.has_responses) =>
    LET absent == ComputeScore(op.questionnaire, WithoutNone(op.responses),
                               R_DPDP, I_Banking)
    IN  ~absent.raised => (~ret.result.raised /\ ret.result = absent)

\* C12: calculate returns a result and lets no exception reach its caller,
\* for every stored questionnaire and every response map.
C12_CalculateNeverRaises ==
  (op.name = "calculate" /\ op.done) => ~ret.result.raised

\* the weights are all present and positive, and their total
AllPositive(sections) ==
  \A i \in 1..Len(sections) :
    Has(sections[i], "weight") /\ RLt(Zero, sections[i].weight)
WeightSum(sections) ==
  SumOver(1..Len(sections), [i \in 1..Len(sections) |-> sections[i].weight])

\* every pairwise ratio between the weights is the same in both lists
SameRatios(before, after) ==
  \A i, j \in 1..Len(before) :
    RMul(after[i].weight, before[j].weight)
      = RMul(after[j].weight, before[i].weight)

\* the total is 1.0 within 1e-6
SumsToOne(sections) ==
  /\ RLe(<<999999, 1000000>>, WeightSum(sections))
  /\ RLe(WeightSum(sections), <<1000001, 1000000>>)

FixWeightsDone ==
  /\ op.name = "fix_questionnaire_weights" /\ op.done
  /\ Len(op.questionnaire.sections) > 0
  /\ AllPositive(op.questionnaire.sections)

\* C13 as stated: for positive weights of total W > 0, W # 1.0, the weights
\* after repair sum to 1.0 within 1e-6 and keep their pairwise ratios.
C13_RepairSumsToOne ==
  (FixWeightsDone /\ WeightSum(op.questionnaire.sections) # One) =>
    /\ SumsToOne(ret.sections)
    /\ SameRatios(op.questionnaire.sections, ret.sections)

\* C13 amended: for positive weights of total W outside [0.99, 1.01] the
\* weights after repair sum to 1.0 and keep their pairwise ratios; for W
\* inside [0.99, 1.01] the repair leaves every weight as it is.
C13_RepairOutsideTolerance ==
  FixWeightsDone =>
    LET W == WeightSum(op.questionnaire.sections)
    IN  IF RLe(<<99, 100>>, W) /\ RLe(W, <<101, 100>>)
          THEN ret = op.questionnaire
          ELSE /\ SumsToOne(ret.sections)
               /\ SameRatios(op.questionnaire.sections, ret.sections)

\* unequal positive weights of total above 1.01 have been repaired
C13_Witness ==
  /\ FixWeightsDone
  /\ RLt(<<101, 100>>, WeightSum(op.questionnaire.sections))
  /\ \E i, j \in 1..Len(op.questionnaire.sections) :
       op.questionnaire.sections[i].weight # op.questionnaire.sections[j].weight
  /\ WeightSum(ret.sections) = One

\* C14: a detected mismatch between the rule set of the results and the
\* selected regulation is handled by one recomputation: the report page
\* never recomputes a second time for the same mismatch.
C14_MismatchRecoveredOnce == report.fixes <= 1

\* the industry codes callers pass
IndustryCodes == {pair[2] : pair \in Pairs}

\* C15: for regulation "NPC" resolve returns the canonical document npc.json
\* whatever the industry code: the document stored as npc.json when it is
\* there and readable, and in every case the questionnaire that any other
\* industry code resolves to.
C15_NpcIgnoresIndustry ==
  (op.name = "get_questionnaire" /\ Upper(Strip(op.pair[1])) = R_NPC) =>
    /\ \A industry \in IndustryCodes :
         ret = LoadQuestionnaire(R_NPC, industry, rule_sets)
    /\ (/\ FileExists(rule_sets, R_NPC, I_npc \o DotJson)
        /\ FileContent(rule_sets, R_NPC, I_npc \o DotJson).readable)
       => ret = FileContent(rule_sets, R_NPC, I_npc \o DotJson).doc

\* NPC was resolved for the industry "General" while the collection holds
\* a general.json next to npc.json, and the npc.json document came back
C15_Witness ==
  /\ op.name = "get_questionnaire"
  /\ op.pair = <<R_NPC, I_General>>
  /\ FileExists(rule_sets, R_NPC, Lower(I_General) \o DotJson)
  /\ ret = Q_Npc

\* C16: when the session has no responses at all (the response map is
\* missing or empty), calculate returns, without raising, overall_score 0.0,
\* compliance_level "Non-Compliant" and an empty section_scores mapping.
C16_NoResponsesZeroResult ==
  (op.name = "calculate" /\ op.done /\ op.responses = <<>>) =>
    /\ ~ret.result.raised
    /\ ret.result.overall_score = Zero
    /\ ret.result.compliance_level = "Non-Compliant"
    /\ ret.result.section_scores = <<>>

-----------------------------------------------------------------------------
\* C17: a score in [0,1] is "Highly Compliant" from 0.85, "Substantially
\* Compliant" from 0.70 up to 0.85, "Partially Compliant" from 0.50 up to
\* 0.70 and "Non-Compliant" below 0.50; a result carries the level of its
\* overall_score divided by 100.
LevelOfRange(score) ==
  IF RLe(<<17, 20>>, score) THEN "Highly Compliant"
  ELSE IF RLe(<<7, 10>>, score) /\ RLt(score, <<17, 20>>)
    THEN "Substantially Compliant"
  ELSE IF RLe(Half, score) /\ RLt(score, <<7, 10>>)
    THEN "Partially Compliant"
  ELSE "Non-Compliant"

C17_LevelThresholds ==
  /\ (op.name = "get_compliance_level" /\ op.done) =>
       ret = LevelOfRange(op.score)
  /\ CalculateDone =>
       ret.result.compliance_level =
         LevelOfRange(RDiv(ret.result.overall_score, Hundred))

C17_Witness ==
  /\ CalculateDone /\ op.has_responses
  /\ ret.result.overall_score = <<70, 1>>
  /\ ret.result.compliance_level = "Substantially Compliant"

-----------------------------------------------------------------------------
\* the scored sections whose reported score is strictly below a limit, and
\* the names a list of the result holds
ScoredBelow(limit) ==
  {s \in AllSections :
     ReportedScore(s) # None /\ RLt(ReportedScore(s), limit)}

Listed(names) == {names[i] : i \in 1..Len(names)}

NamesOfSections(set) == {op.questionnaire.sections[s].name : s \in set}

\* C18: in a result computed from a response map, high_risk_areas holds
\* exactly the sections that are scored and whose score is strictly below
\* 0.6, each once; a section at exactly 0.6 and an unscored section are not
\* listed.
C18_HighRiskBelowThreshold ==
  (CalculateDone /\ op.has_responses) =>
    /\ Listed(ret.result.high_risk_areas) = NamesOfSections(ScoredBelow(<<3, 5>>))
    /\ Cardinality(Listed(ret.result.high_risk_areas)) =
         Len(ret.result.high_risk_areas)

C18_Witness ==
  /\ CalculateDone /\ op.has_responses
  /\ \E s, t \in AllSections :
       /\ ReportedScore(s) = <<3, 5>>
       /\ op.questionnaire.sections[s].name \notin Listed(ret.result.high_risk_areas)
       /\ op.questionnaire.sections[t].name \in Listed(ret.result.high_risk_areas)

\* C19: in a result computed from a response map, improvement_priorities
\* holds exactly the scored sections with a score strictly below 0.75, each
\* once, in ascending order of score, and sections of equal score in the
\* order the questionnaire declares them.
C19_PrioritiesAscending ==
  (CalculateDone /\ op.has_responses) =>
    LET prio == ret.result.improvement_priorities
        ScoreOf(name) == DictGet(ret.result.section_scores, name, None)
        Declared(name) ==
          CHOOSE s \in AllSections : op.questionnaire.sections[s].name = name
    IN  /\ Listed(prio) = NamesOfSections(ScoredBelow(<<3, 4>>))
        /\ Cardinality(Listed(prio)) = Len(prio)
        /\ \A i, j \in 1..Len(prio) :
             i < j =>
               \/ RLt(ScoreOf(prio[i]), ScoreOf(prio[j]))
               \/ /\ ScoreOf(prio[i]) = ScoreOf(prio[j])
                  /\ Declared(prio[i]) < Declared(prio[j])

C19_Witness ==
  /\ CalculateDone /\ op.has_responses
  /\ Len(ret.result.improvement_priorities) = 2
  /\ \E s, t \in AllSections :
       /\ s < t
       /\ ReportedScore(s) # None
       /\ ReportedScore(s) = ReportedScore(t)

\* C20: for a questionnaire with positive section weights and answer-table
\* values in [0,1] or excluded, and every response map, each scored entry of
\* section_scores lies in [0,1] and overall_score lies in [0,100].
InRangeInputs(questionnaire) ==
  /\ \A s \in 1..Len(questionnaire.sections) :
       RLt(Zero, WeightOf(questionnaire.sections[s], questionnaire.sections))
  /\ \A i \in 1..Len(AnswerPointsOf(questionnaire)) :
       LET v == AnswerPointsOf(questionnaire)[i].v
       IN  v # None => RLe(Zero, v) /\ RLe(v, One)

C20_ScoresInRange ==
  (CalculateDone /\ InRangeInputs(op.questionnaire)) =>
    /\ \A i \in 1..Len(ret.result.section_scores) :
         LET v == ret.result.section_scores[i].v
         IN  v # None => RLe(Zero, v) /\ RLe(v, One)
    /\ RLe(Zero, ret.result.overall_score)
    /\ RLe(ret.result.overall_score, Hundred)

C20_Witness ==
  /\ CalculateDone /\ op.has_responses
  /\ InRangeInputs(op.questionnaire)
  /\ op.questionnaire = Q_Heavy
  /\ ret.result.overall_score = Hundred
  /\ \A s \in AllSections : ReportedScore(s) = One

-----------------------------------------------------------------------------
\* the answered responses of a verify_section_score call, and whether each
\* of them is a key of the answer table worth exactly 1.0
AnsweredResponses == SelectSeq(op.section_responses, Truthy)

AllWorthOne ==
  /\ Len(AnsweredResponses) > 0
  /\ \A i \in 1..Len(AnsweredResponses) :
       /\ DictHas(op.answer_points, AnsweredResponses[i])
       /\ DictGet(op.answer_points, AnsweredResponses[i], Zero) = One

\* C21: for every section, whatever its name, whose raw score is below 1.0
\* and whose every answered response is worth exactly 1.0 in the answer
\* table, the corrected section score is 1.0.
C21_AllOnesForcedToOne ==
  (/\ op.name = "verify_section_score" /\ op.done
   /\ RLt(op.raw_score, One)
   /\ AllWorthOne)
  => ret = One

\* C22: a section whose raw score r satisfies 0.95 <= r < 1.0 gets the
\* corrected score 1.0; for a raw score below 0.95 the precision rule leaves
\* the score unchanged, so that it changes only where the all-ones rule or
\* the text-pattern rule applies. (A section has a raw score only when it
\* has at least one response.)
C22_PrecisionRoundsUp ==
  /\ (/\ op.name = "verify_section_score" /\ op.done
      /\ Len(op.section_responses) > 0)
     => /\ (RLe(<<19, 20>>, op.raw_score) /\ RLt(op.raw_score, One)) => ret = One
        /\ (/\ RLt(op.raw_score, <<19, 20>>)
            /\ ~(op.section_name = N_DCP /\ AllWorthOne)
            /\ ~should_have_perfect_score(op.section_name, op.section_responses))
           => ret = op.raw_score
  /\ CalculateDone =>
       \A s \in AllSections :
         (/\ ret.raw_scores[s] # None
          /\ RLe(<<19, 20>>, ret.raw_scores[s])
          /\ RLt(ret.raw_scores[s], One))
         => ReportedScore(s) = One

C22_Witness ==
  /\ op.name = "verify_section_score" /\ op.done
  /\ op.section_name = N_Security
  /\ op.raw_score = <<19, 20>>
  /\ Len(op.section_responses) > 0
  /\ ~should_have_perfect_score(op.section_name, op.section_responses)
  /\ ret = One

\* the text equals no table key, exactly or ignoring case
MatchesNoKey(text, answer_points) ==
  \A i \in 1..Len(answer_points) : Lower(answer_points[i].k) # Lower(text)

\* C23: a response text that matches no table key exactly or ignoring case
\* and that contains "not applicable" is resolved to Excluded: the section
\* scorer leaves it out of numerator and denominator, and the engine adds
\* nothing for it.
C23_NotApplicableTextExcluded ==
  (/\ op.name = "resolve_points" /\ op.done
   /\ MatchesNoKey(op.response, op.answer_points)
   /\ Contains(K_not_applicable, Lower(op.response)))
  => /\ ret.section_scorer = None
     /\ ret.added = Zero

\* the sections with at least one answer whose every answer is a table key
\* of value Excluded
AllExcludedSections ==
  {s \in AllSections :
     LET answered == AnsweredOf(op.questionnaire, s, op.responses)
     IN  /\ answered # {}
         /\ \A j \in answered :
              LET text == TextOf(op.responses, s, j)
              IN  /\ IsExactKey(text, AnswerPointsOf(op.questionnaire))
                  /\ ~IsValued(text, AnswerPointsOf(op.questionnaire))}

\* C24: a section in which every answered question resolves to Excluded is
\* reported as unscored and is left out of the weighted overall average; it
\* is not scored as 0.
C24_AllExcludedUnscored ==
  CalculateDone => \A s \in AllExcludedSections : ReportedScore(s) = None

\* the readable documents of a collection whose file name equals a name
\* exactly, or ignoring case
DocsNamed(regulation, name) ==
  {FileContent(rule_sets, regulation, f).doc :
     f \in {g \in Listed(ListDir(rule_sets, regulation)) :
              g = name /\ FileContent(rule_sets, regulation, g).readable}}

DocsNamedIgnoringCase(regulation, name) ==
  {FileContent(rule_sets, regulation, f).doc :
     f \in {g \in Listed(ListDir(rule_sets, regulation)) :
              /\ Lower(g) = Lower(name)
              /\ FileContent(rule_sets, regulation, g).readable}}

\* the default document name of a regulation
DefaultFile(regulation) ==
  IF regulation = R_PDPPL THEN I_OilGas \o DotJson
  ELSE IF regulation = R_OAIC THEN I_General \o DotJson
  ELSE I_Banking \o DotJson

\* C25: for every regulation that has a rule-set collection (NPC, which has
\* one canonical document, aside), resolve returns the document whose name
\* equals the requested industry exactly when it exists; otherwise the
\* document whose name equals it ignoring case when one exists; and the
\* regulation's default document only when neither exists.
C25_LookupOrder ==
  LET regulation == Upper(Strip(op.pair[1]))
      wanted == Strip(op.pair[2]) \o DotJson
      exact == DocsNamed(regulation, wanted)
      folded == DocsNamedIgnoringCase(regulation, wanted)
  IN  (/\ op.name = "get_questionnaire"
       /\ regulation # R_NPC
       /\ DictHas(rule_sets, regulation))
      => /\ exact # {} => ret \in exact
         /\ (exact = {} /\ folded # {}) => ret \in folded
         /\ (folded = {} /\ DocsNamed(regulation, DefaultFile(regulation)) # {})
              => ret \in DocsNamed(regulation, DefaultFile(regulation))

\* C26: a questionnaire returned by the load path whose stored section
\* weights are positive and sum to a total outside [0.98, 1.02] is returned
\* with weights normalized so that they sum to 1.0 with their ratios
\* preserved; it is neither rejected nor returned with the stored weights.
C26_LoadNormalizesWeights ==
  (/\ op.name = "load_questionnaire" /\ op.done
   /\ Len(op.questionnaire.sections) > 0
   /\ AllPositive(op.questionnaire.sections)
   /\ ~(/\ RLe(<<49, 50>>, WeightSum(op.questionnaire.sections))
        /\ RLe(WeightSum(op.questionnaire.sections), <<51, 50>>)))
  => /\ ret # NotFixed
     /\ SumsToOne(ret.sections)
     /\ SameRatios(op.questionnaire.sections, ret.sections)

\* C27: calculate does not modify the questionnaire it scores: the document
\* held in the repository cache is, after any calculate call, equal to the
\* document as it was loaded, so a later resolve that hits the cache returns
\* the document as loaded.
C27_CachedDocumentUnchanged ==
  \A pair \in SessionPairs :
    lru[pair].cached =>
      lru[pair].doc = LoadQuestionnaire(pair[1], pair[2], rule_sets)

\* the answered questions of section s that carry a recommendations map
Advisers(s) ==
  {j \in AnsweredOf(op.questionnaire, s, op.responses) :
     LET question == op.questionnaire.sections[s].questions[j]
     IN  question.shape = "dict" /\ Has(question, "recommendations")}

\* the recommendations of section s that come from recommendations maps
SpecificRecsOf(s) ==
  SelectSeq(DictGet(ret.result.recommendations,
                    op.questionnaire.sections[s].name, <<>>),
            LAMBDA rec : rec.kind = "specific")

\* the keys of a recommendations map that match a text after normalization
MatchingKeys(recommendations, text) ==
  {i \in 1..Len(recommendations) :
     \/ Contains(Clean(recommendations[i].k), Clean(text))
     \/ Contains(Clean(text), Clean(recommendations[i].k))}

\* C28: for each answered question that has a recommendations map, the
\* recommendation of the key equal to the response is used when such a key
\* exists; otherwise only the first key that matches after normalization
\* contributes, so one question adds at most one recommendation, and no
\* recommendation string appears more than once in a section's list.
C28_OneRecommendationPerQuestion ==
  (CalculateDone /\ op.has_responses) =>
    \A s \in AllSections :
      LET list == SpecificRecsOf(s)
      IN  /\ Len(list) <= Cardinality(Advisers(s))
          /\ Cardinality(Listed(list)) = Len(list)
          /\ \A j \in Advisers(s) :
               LET map == op.questionnaire.sections[s].questions[j].recommendations
                   text == TextOf(op.responses, s, j)
                   matching == MatchingKeys(map, text)
               IN  IF DictHas(map, text)
                     THEN SpecificRec(DictGet(map, text, "")) \in Listed(list)
                     ELSE matching # {} =>
                            SpecificRec(map[CHOOSE i \in matching :
                                              \A k \in matching : i <= k].v)
                              \in Listed(list)

\* C29: the result returned by calculate is the one computed from the
\* response map as it is at the time of that call: after any sequence of
\* save_response and calculate calls for the same (regulation, industry),
\* however close in time, no calculate call returns a result computed from
\* an earlier response map.
C29_ResultFromCurrentResponses ==
  op.name = "calculate" =>
    ret = ComputeScore(LoadQuestionnaire(op.pair[1], op.pair[2], rule_sets),
                       session_responses, op.pair[1], op.pair[2])

\* C30: the synthesized fallback questionnaire, for every regulation and
\* industry code, satisfies validate_questionnaire_structure (every section
\* has name, positive weight and questions, every record question has id,
\* text and options) and its section weights sum to 1.0.
C30_FallbackIsValid ==
  (/\ op.name = "get_questionnaire"
   /\ ~DictHas(rule_sets, Upper(Strip(op.pair[1]))))
  => /\ validate_questionnaire_structure(ret)
     /\ WeightSum(ret.sections) = One

====
